---- MODULE Spec2Model ----
(***************************************************************************)
(* A model of the xdsl-smt lowering passes: the comb-to-smt patterns, the  *)
(* pdl-to-smt patterns and the smt.bv attribute verifier.  A module is a   *)
(* block of operations; a pass is a walker that visits the block in order  *)
(* and applies the first pattern that acts on the visited operation.       *)
(***************************************************************************)
EXTENDS Integers, Sequences, FiniteSets, TLC

VARIABLES
    input,          \* the block the pass was given (never changes)
    block,          \* the block of the module being rewritten
    idx,            \* position of the walker in the block
    nextId,         \* identity handed to the next operation that is created
    pdl_op_to_op,   \* PDLToSMTRewriteContext.pdl_op_to_op
    preconditions,  \* PDLToSMTRewriteContext.preconditions
    erased,         \* operations erased with safe_erase=False (ErasedSSAValue owners)
    status          \* "running", "done", or the name of the exception raised

vars == <<input, block, idx, nextId, pdl_op_to_op, preconditions, erased, status>>

-----------------------------------------------------------------------------
(* Bounds of the explored inputs.                                          *)

MaxWidth == 2
MaxArity == 3
MaxCombOps == 2
MaxPatterns == 2
MaxGets == 2
MaxValue == 12

-----------------------------------------------------------------------------
(* Types, values and operations.                                           *)

IntegerType(w) == [k |-> "builtin.integer", w |-> w]

BitVectorType(w) == [k |-> "smt.bv.bv", w |-> w]

BoolType == [k |-> "smt.bool", w |-> 0]

OtherType(k) == [k |-> k, w |-> 0]

NoType == OtherType("none")

isBitVectorType(t) == t.k = "smt.bv.bv"

\* An operation with its operands, result types, attributes and region body.
\* seg holds the operand segment sizes of operations with several operand
\* groups (pdl.operation, pdl.replace); args the types of the arguments of
\* the operation's region, attrs and props its attributes and properties.
MkOp(id, name, operands, rtypes) ==
    [id |-> id, name |-> name, operands |-> operands, seg |-> <<>>,
     rtypes |-> rtypes, body |-> <<>>, opName |-> "", ty |-> NoType,
     val |-> 0, index |-> 0, names |-> <<>>,
     args |-> <<>>, attrs |-> <<>>, props |-> <<>>]

\* The i-th result of an operation (i counts from 1).
Result(o, i) == [op |-> o.id, idx |-> i, type |-> o.rtypes[i]]

Results(o) == [i \in 1..Len(o.rtypes) |-> Result(o, i)]

\* integer_type_lowerer: iN -> BitVec(N)
convert_type(t) ==
    IF t.k = "builtin.integer" THEN BitVectorType(t.w) ELSE t

-----------------------------------------------------------------------------
(* The rewriter: splice, replace, erase.                                   *)

RECURSIVE SubstOps(_, _, _)
SubstOps(ops, old, new) ==
    [i \in 1..Len(ops) |->
        [ops[i] EXCEPT
            !.operands = [j \in 1..Len(@) |-> IF @[j] = old THEN new ELSE @[j]],
            !.body = SubstOps(@, old, new)]]

RECURSIVE ReplaceAllUses(_, _, _, _)
ReplaceAllUses(ops, olds, news, k) ==
    IF k > Len(olds) THEN ops
    ELSE ReplaceAllUses(SubstOps(ops, olds[k], news[k]), olds, news, k + 1)

\* A rewriter is the block together with the position of the matched op.
Rewriter(ops, i) == [ops |-> ops, at |-> i]

insert_op_before_matched_op(rw, new_ops) ==
    [ops |-> SubSeq(rw.ops, 1, rw.at - 1) \o new_ops
                \o SubSeq(rw.ops, rw.at, Len(rw.ops)),
     at |-> rw.at + Len(new_ops)]

inline_block_before_matched_op(rw, body) == insert_op_before_matched_op(rw, body)

erase_matched_op(rw) ==
    [ops |-> SubSeq(rw.ops, 1, rw.at - 1) \o SubSeq(rw.ops, rw.at + 1, Len(rw.ops)),
     at |-> rw.at]

\* replace_matched_op(new_ops, new_results): the new operations take the
\* place of the matched one and every use of its results is rewired.
replace_matched_op(rw, new_ops, new_results) ==
    LET old == rw.ops[rw.at]
        spliced == SubSeq(rw.ops, 1, rw.at - 1) \o new_ops
                      \o SubSeq(rw.ops, rw.at + 1, Len(rw.ops))
    IN [ops |-> ReplaceAllUses(spliced, Results(old), new_results, 1),
        at |-> rw.at]

\* The results a replacement uses when none are given: those of the last new op.
default_results(new_ops) ==
    IF Len(new_ops) = 0 THEN <<>> ELSE Results(new_ops[Len(new_ops)])

-----------------------------------------------------------------------------
(* smt and smt.bv operations.                                              *)

\* BitVectorValue(value, width) inside smt.bv.constant; the result type is
\* attr.get_type().
ConstantOp(id, value, width) ==
    [MkOp(id, "smt.bv.constant", <<>>, <<BitVectorType(width)>>)
        EXCEPT !.val = value, !.ty = BitVectorType(width)]

\* The parameters BinaryBVOp.__init__ accepts.
BinaryBVOp_init_params == {"lhs", "rhs", "res"}

\* BinaryBVOp(lhs, rhs): __init__ ignores res and types the result as lhs.
BinaryBVOp_init(id, name, lhs, rhs) == MkOp(id, name, <<lhs, rhs>>, <<lhs.type>>)

\* A call cls(k1=..., k2=...) binds only when __init__ has those parameters;
\* otherwise Python raises TypeError before any operation exists.
accepts_keywords(params, keywords) == keywords \subseteq params

\* The operation classes the smt.bv dialect module defines.
SMTBitVectorDialect ==
    {"smt.bv.constant", "smt.bv.neg", "smt.bv.add", "smt.bv.sub", "smt.bv.mul",
     "smt.bv.urem", "smt.bv.srem", "smt.bv.smod", "smt.bv.shl", "smt.bv.lshr",
     "smt.bv.ashr", "smt.bv.udiv", "smt.bv.sdiv", "smt.bv.not", "smt.bv.or",
     "smt.bv.xor", "smt.bv.and", "smt.bv.nand", "smt.bv.nor", "smt.bv.xnor",
     "smt.bv.ule", "smt.bv.ult", "smt.bv.uge", "smt.bv.ugt", "smt.bv.sle",
     "smt.bv.slt", "smt.bv.sge", "smt.bv.sgt"}

\* cls.create(operands=..., result_types=...) bypasses __init__.
Op_create(id, name, operands, result_types) == MkOp(id, name, operands, result_types)

DeclareConstOp(id, type) ==
    [MkOp(id, "smt.declare_const", <<>>, <<type>>) EXCEPT !.ty = type]

CoreBinOp(id, name, lhs, rhs) == MkOp(id, name, <<lhs, rhs>>, <<BoolType>>)

CoreNotOp(id, arg) == MkOp(id, "smt.not", <<arg>>, <<BoolType>>)

AssertOp(id, arg) == MkOp(id, "smt.assert", <<arg>>, <<>>)

CheckSatOp(id) == MkOp(id, "smt.check_sat", <<>>, <<>>)

IteOp(id, cond, true_val, false_val) ==
    MkOp(id, "smt.ite", <<cond, true_val, false_val>>, <<true_val.type>>)

-----------------------------------------------------------------------------
(* comb-to-smt: the patterns of comb_to_smt.py.  Applying a pattern to the *)
(* operation at position i gives an outcome: whether it acted, the         *)
(* exception it raised (if any), the new block and the next fresh id.      *)

NotMatched(ops, id0) == [act |-> FALSE, err |-> "", ops |-> ops, nextId |-> id0]

Rewrote(ops, id0) == [act |-> TRUE, err |-> "", ops |-> ops, nextId |-> id0]

Raised(e, ops, id0) == [act |-> FALSE, err |-> e, ops |-> ops, nextId |-> id0]

\* The loop of VariadicOpPattern: one smt op per operand after the first.
RECURSIVE VariadicFold(_, _, _, _, _, _)
VariadicFold(smt_op_type, op, k, current_val, rw, id0) ==
    IF k > Len(op.operands)
    THEN [err |-> "", current_val |-> current_val, rw |-> rw, nextId |-> id0]
    ELSE IF ~accepts_keywords(BinaryBVOp_init_params, {"operands", "result_types"})
    THEN [err |-> "TypeError", current_val |-> current_val, rw |-> rw, nextId |-> id0]
    ELSE LET new_op == MkOp(id0, smt_op_type, <<current_val, op.operands[k]>>,
                            <<convert_type(op.rtypes[1])>>)
         IN VariadicFold(smt_op_type, op, k + 1, Result(new_op, 1),
                         insert_op_before_matched_op(rw, <<new_op>>), id0 + 1)

VariadicOpPattern(p, ops, i, id0) ==
    LET op == ops[i] IN
    IF op.name # p.comb THEN NotMatched(ops, id0)
    ELSE IF Len(op.operands) = 0
    THEN LET c == ConstantOp(id0, p.empty_value, 1)
         IN Rewrote(replace_matched_op(Rewriter(ops, i), <<c>>,
                                       default_results(<<c>>)).ops, id0 + 1)
    ELSE LET f == VariadicFold(p.smt, op, 2, op.operands[1], Rewriter(ops, i), id0)
         IN IF f.err # "" THEN Raised(f.err, ops, id0)
            ELSE Rewrote(replace_matched_op(f.rw, <<>>, <<f.current_val>>).ops,
                         f.nextId)

TrivialBinOpPattern(p, ops, i, id0) ==
    LET op == ops[i] IN
    IF op.name # p.comb THEN NotMatched(ops, id0)
    ELSE IF ~accepts_keywords(BinaryBVOp_init_params, {"operands", "result_types"})
    THEN Raised("TypeError", ops, id0)
    ELSE LET new_op == MkOp(id0, p.smt, op.operands, <<convert_type(op.rtypes[1])>>)
         IN Rewrote(replace_matched_op(Rewriter(ops, i), <<new_op>>,
                                       default_results(<<new_op>>)).ops, id0 + 1)

\* A pattern that leaves the unsupported operations alone instead of raising.
NotImplementedPattern_silent(p, ops, i, id0) == NotMatched(ops, id0)

\* ICmpPattern, ParityPattern, ExtractPattern, ReplicatePattern.
NotImplementedPattern(p, ops, i, id0) ==
    IF ops[i].name # p.comb THEN NotMatched(ops, id0)
    ELSE Raised("NotImplementedError", ops, id0)

\* The loop of ConcatPattern: bv_dialect.ConcatOp is looked up at each turn.
RECURSIVE ConcatFold(_, _, _, _, _)
ConcatFold(op, k, current_val, rw, id0) ==
    IF k > Len(op.operands)
    THEN [err |-> "", current_val |-> current_val, rw |-> rw, nextId |-> id0]
    ELSE IF "smt.bv.concat" \notin SMTBitVectorDialect
    THEN [err |-> "AttributeError", current_val |-> current_val, rw |-> rw,
          nextId |-> id0]
    ELSE LET new_op == BinaryBVOp_init(id0, "smt.bv.concat", current_val,
                                       op.operands[k])
         IN ConcatFold(op, k + 1, Result(new_op, 1),
                       insert_op_before_matched_op(rw, <<new_op>>), id0 + 1)

ConcatPattern(p, ops, i, id0) ==
    LET op == ops[i] IN
    IF op.name # p.comb THEN NotMatched(ops, id0)
    ELSE IF ~(Len(op.operands) > 0) THEN Raised("AssertionError", ops, id0)
    ELSE LET f == ConcatFold(op, 2, op.operands[1], Rewriter(ops, i), id0)
         IN IF f.err # "" THEN Raised(f.err, ops, id0)
            ELSE Rewrote(replace_matched_op(f.rw, <<>>, <<f.current_val>>).ops,
                         f.nextId)

MuxPattern(p, ops, i, id0) ==
    LET op == ops[i] IN
    IF op.name # p.comb THEN NotMatched(ops, id0)
    ELSE LET new_op == IteOp(id0, op.operands[1], op.operands[2], op.operands[3])
         IN Rewrote(replace_matched_op(Rewriter(ops, i), <<new_op>>,
                                       default_results(<<new_op>>)).ops, id0 + 1)

\* arith-to-smt: a binary arith op becomes the smt.bv op of the same operands.
ArithBinOpPattern(p, ops, i, id0) ==
    LET op == ops[i] IN
    IF op.name # p.comb THEN NotMatched(ops, id0)
    ELSE LET new_op == MkOp(id0, p.smt, op.operands, <<convert_type(op.rtypes[1])>>)
         IN Rewrote(replace_matched_op(Rewriter(ops, i), <<new_op>>,
                                       default_results(<<new_op>>)).ops, id0 + 1)

\* arith-to-smt: arith.constant v : iN becomes smt.bv.constant <v : N>.
ArithConstantPattern(p, ops, i, id0) ==
    LET op == ops[i] IN
    IF op.name # p.comb THEN NotMatched(ops, id0)
    ELSE LET new_op == ConstantOp(id0, op.val, op.ty.w)
         IN Rewrote(replace_matched_op(Rewriter(ops, i), <<new_op>>,
                                       default_results(<<new_op>>)).ops, id0 + 1)

-----------------------------------------------------------------------------
(* lower-effects-with-memory: attributes, operations and helpers of        *)
(* lower_effects_with_memory.py.  A parametrized attribute carries its     *)
(* parameters in params, an array attribute its elements in data; every    *)
(* other attribute (a dictionary included) is opaque data.                 *)

StateType == OtherType("effect.state")

PointerType == OtherType("mem_effect.ptr")

MemoryType == OtherType("memory.memory")

BlockIDType == OtherType("memory.block_id")

BlockType == OtherType("memory.block")

BytesType == OtherType("memory.bytes")

Parametrized(name, params) == [k |-> name, w |-> 0, params |-> params]

PairType(first, second) == Parametrized("smt.utils.pair", <<first, second>>)

FunctionType(inputs, outputs) ==
    Parametrized("builtin.function_type",
                 << [k |-> "builtin.array", w |-> 0, data |-> inputs],
                    [k |-> "builtin.array", w |-> 0, data |-> outputs] >>)

ArrayAttr(data) == [k |-> "builtin.array", w |-> 0, data |-> data]

DictionaryAttr(entries) == [k |-> "builtin.dictionary", w |-> 0, entries |-> entries]

new_state_type == PairType(MemoryType, BoolType)

new_pointer_type == PairType(BlockIDType, BitVectorType(64))

FirstOp(id, val, pair_type) == MkOp(id, "smt.utils.first", <<val>>, <<pair_type.params[1]>>)

SecondOp(id, val, pair_type) == MkOp(id, "smt.utils.second", <<val>>, <<pair_type.params[2]>>)

PairOp(id, first, second) ==
    MkOp(id, "smt.utils.pair", <<first, second>>, <<PairType(first.type, second.type)>>)

ConstantBoolOp(id, value) ==
    [MkOp(id, "smt.constant_bool", <<>>, <<BoolType>>) EXCEPT !.val = IF value THEN 1 ELSE 0]

GetBlockSizeOp(id, blk) == MkOp(id, "memory.get_block_size", <<blk>>, <<BitVectorType(64)>>)

GetBlockOp(id, memory, block_id) ==
    MkOp(id, "memory.get_block", <<memory, block_id>>, <<BlockType>>)

GetBlockBytesOp(id, blk) == MkOp(id, "memory.get_block_bytes", <<blk>>, <<BytesType>>)

SetBlockBytesOp(id, blk, bytes) ==
    MkOp(id, "memory.set_block_bytes", <<blk, bytes>>, <<BlockType>>)

SetBlockOp(id, blk, memory, block_id) ==
    MkOp(id, "memory.set_block", <<blk, memory, block_id>>, <<MemoryType>>)

SetBlockLiveMarkerOp(id, blk, live) ==
    MkOp(id, "memory.set_block_live_marker", <<blk, live>>, <<BlockType>>)

SetBlockSizeOp(id, blk, size) ==
    MkOp(id, "memory.set_block_size", <<blk, size>>, <<BlockType>>)

ReadBytesOp(id, bytes, offset, type) ==
    MkOp(id, "memory.read_bytes", <<bytes, offset>>, <<type>>)

WriteBytesOp(id, value, bytes, offset) ==
    MkOp(id, "memory.write_bytes", <<value, bytes, offset>>, <<BytesType>>)

\* results: res (the block id) and new_memory
GetFreshBlockIDOp(id, memory) ==
    MkOp(id, "memory.get_fresh_block_id", <<memory>>, <<BlockIDType, MemoryType>>)

GetFreshBlockIDOp_res(op) == Result(op, 1)

\* A new_memory that is the memory the id was drawn from.
GetFreshBlockIDOp_new_memory_stale(op) == op.operands[1]

GetFreshBlockIDOp_new_memory(op) == Result(op, 2)

\* The helpers insert every new op before the matched op, so the new ops of a
\* rewrite stand before it in creation order: each helper returns the ops it
\* creates (ids from id0 on) and the values it returns.
get_memory_and_ub_from_state(state, id0) ==
    LET memory == FirstOp(id0, state, new_state_type)
        ub == SecondOp(id0 + 1, state, new_state_type)
    IN [ops |-> <<memory, ub>>, memory |-> Result(memory, 1), ub |-> Result(ub, 1)]

create_state(memory, ub, id0) ==
    [ops |-> <<PairOp(id0, memory, ub)>>, res |-> Result(PairOp(id0, memory, ub), 1)]

get_block_id_and_offset_from_pointer(pointer, id0) ==
    LET block_id == FirstOp(id0, pointer, new_pointer_type)
        offset == SecondOp(id0 + 1, pointer, new_pointer_type)
    IN [ops |-> <<block_id, offset>>, block_id |-> Result(block_id, 1),
        offset |-> Result(offset, 1)]

create_pointer(block_id, offset, id0) ==
    [ops |-> <<PairOp(id0, block_id, offset)>>,
     res |-> Result(PairOp(id0, block_id, offset), 1)]

\* A check_bounds that compares the offset alone with the block size.
check_bounds_offsetOnly(offset, blk, id0) ==
    LET block_size_op == GetBlockSizeOp(id0, blk)
        offset_end_op == BinaryBVOp_init(id0 + 1, "smt.bv.add", offset,
                                         Result(block_size_op, 1))
        offset_in_bounds_op == CoreBinOp(id0 + 2, "smt.bv.ule", offset,
                                         Result(block_size_op, 1))
    IN [ops |-> <<block_size_op, offset_end_op, offset_in_bounds_op>>,
        res |-> Result(offset_in_bounds_op, 1)]

check_bounds(offset, blk, id0) ==
    LET block_size_op == GetBlockSizeOp(id0, blk)
        offset_end_op == BinaryBVOp_init(id0 + 1, "smt.bv.add", offset,
                                         Result(block_size_op, 1))
        offset_in_bounds_op == CoreBinOp(id0 + 2, "smt.bv.ule",
                                         Result(offset_end_op, 1),
                                         Result(block_size_op, 1))
    IN [ops |-> <<block_size_op, offset_end_op, offset_in_bounds_op>>,
        res |-> Result(offset_in_bounds_op, 1)]

\* The new ops go before the matched op, which is then replaced by values.
ReplaceByValues(ops, i, id0, new_ops, new_results) ==
    Rewrote(replace_matched_op(insert_op_before_matched_op(Rewriter(ops, i), new_ops),
                               <<>>, new_results).ops,
            id0 + Len(new_ops))

RECURSIVE recursively_convert_attr(_)
recursively_convert_attr(attr) ==
    IF attr.k = "effect.state" THEN PairType(MemoryType, BoolType)
    ELSE IF attr.k = "mem_effect.ptr" THEN PairType(BlockIDType, BitVectorType(64))
    ELSE IF "params" \in DOMAIN attr
    THEN [attr EXCEPT !.params =
             [j \in 1..Len(attr.params) |-> recursively_convert_attr(attr.params[j])]]
    ELSE IF attr.k = "builtin.array"
    THEN [attr EXCEPT !.data =
             [j \in 1..Len(attr.data) |-> recursively_convert_attr(attr.data[j])]]
    ELSE attr

\* The arguments of the block of an operation's region, as values.
BlockArgs(o) == [j \in 1..Len(o.args) |-> [op |-> o.id, idx |-> 0 - j, type |-> o.args[j]]]

\* Operand accessors of the effect operations.
op_state(op) == IF op.name = "mem_effect.write" THEN op.operands[2] ELSE op.operands[1]

op_pointer(op) ==
    IF op.name = "mem_effect.offset_ptr" THEN op.operands[1]
    ELSE IF op.name = "mem_effect.write" THEN op.operands[3] ELSE op.operands[2]

op_size(op) == op.operands[2]

op_offset(op) == op.operands[2]

write_value(op) == op.operands[1]

\* A LowerTriggerOp that clears the ub flag.
LowerTriggerOp_clears(p, ops, i, id0) ==
    IF ops[i].name # "ub_effect.trigger" THEN NotMatched(ops, id0)
    ELSE LET s == get_memory_and_ub_from_state(op_state(ops[i]), id0)
             new_ub == ConstantBoolOp(id0 + 2, FALSE)
             new_state == create_state(s.memory, Result(new_ub, 1), id0 + 3)
         IN ReplaceByValues(ops, i, id0, s.ops \o <<new_ub>> \o new_state.ops,
                            <<new_state.res>>)

LowerTriggerOp(p, ops, i, id0) ==
    IF ops[i].name # "ub_effect.trigger" THEN NotMatched(ops, id0)
    ELSE LET s == get_memory_and_ub_from_state(op_state(ops[i]), id0)
             new_ub == ConstantBoolOp(id0 + 2, TRUE)
             new_state == create_state(s.memory, Result(new_ub, 1), id0 + 3)
         IN ReplaceByValues(ops, i, id0, s.ops \o <<new_ub>> \o new_state.ops,
                            <<new_state.res>>)

LowerToBoolOp(p, ops, i, id0) ==
    IF ops[i].name # "ub_effect.to_bool" THEN NotMatched(ops, id0)
    ELSE LET s == get_memory_and_ub_from_state(op_state(ops[i]), id0)
         IN ReplaceByValues(ops, i, id0, s.ops, <<s.ub>>)

\* A LowerGenericOp that converts the types of values only.
LowerGenericOp_valuesOnly(p, ops, i, id0) ==
    LET op == ops[i]
        conv(attrs) == [j \in 1..Len(attrs) |-> recursively_convert_attr(attrs[j])]
        new_op == [op EXCEPT !.rtypes = conv(@), !.args = conv(@)]
    IN IF new_op = op THEN NotMatched(ops, id0)
       ELSE Rewrote(ReplaceAllUses([ops EXCEPT ![i] = new_op],
                                   Results(op) \o BlockArgs(op),
                                   Results(new_op) \o BlockArgs(new_op), 1), id0)

\* modify_value_type on every result and block argument whose type changes,
\* then the attributes and the properties.
\* A LowerGenericOp that reports a rewrite on every op.
LowerGenericOp_alwaysActs(p, ops, i, id0) ==
    LET op == ops[i]
        conv(attrs) == [j \in 1..Len(attrs) |-> recursively_convert_attr(attrs[j])]
        new_op == [op EXCEPT !.rtypes = conv(@), !.args = conv(@),
                             !.attrs = conv(@), !.props = conv(@)]
    IN Rewrote(ReplaceAllUses([ops EXCEPT ![i] = new_op],
                              Results(op) \o BlockArgs(op),
                              Results(new_op) \o BlockArgs(new_op), 1), id0)

LowerGenericOp(p, ops, i, id0) ==
    LET op == ops[i]
        conv(attrs) == [j \in 1..Len(attrs) |-> recursively_convert_attr(attrs[j])]
        new_op == [op EXCEPT !.rtypes = conv(@), !.args = conv(@),
                             !.attrs = conv(@), !.props = conv(@)]
    IN IF new_op = op THEN NotMatched(ops, id0)
       ELSE Rewrote(ReplaceAllUses([ops EXCEPT ![i] = new_op],
                                   Results(op) \o BlockArgs(op),
                                   Results(new_op) \o BlockArgs(new_op), 1), id0)

LowerAlloc(p, ops, i, id0) ==
    IF ops[i].name # "mem_effect.alloc" THEN NotMatched(ops, id0)
    ELSE LET s == get_memory_and_ub_from_state(op_state(ops[i]), id0)
             id_op == GetFreshBlockIDOp(id0 + 2, s.memory)
             memory == GetFreshBlockIDOp_new_memory(id_op)
             get_block_op == GetBlockOp(id0 + 3, memory, GetFreshBlockIDOp_res(id_op))
             true_op == ConstantBoolOp(id0 + 4, TRUE)
             set_live_op == SetBlockLiveMarkerOp(id0 + 5, Result(get_block_op, 1),
                                                 Result(true_op, 1))
             set_block_size == SetBlockSizeOp(id0 + 6, Result(set_live_op, 1),
                                              op_size(ops[i]))
             new_memory_op == SetBlockOp(id0 + 7, Result(set_block_size, 1), memory,
                                         GetFreshBlockIDOp_res(id_op))
             zero_index_op == ConstantOp(id0 + 8, 0, 64)
             new_pointer == create_pointer(GetFreshBlockIDOp_res(id_op),
                                           Result(zero_index_op, 1), id0 + 9)
             new_state == create_state(Result(new_memory_op, 1), s.ub, id0 + 10)
         IN ReplaceByValues(ops, i, id0,
                s.ops \o <<id_op, get_block_op, true_op, set_live_op, set_block_size,
                           new_memory_op, zero_index_op>>
                      \o new_pointer.ops \o new_state.ops,
                <<new_state.res, new_pointer.res>>)

LowerPointerOffset(p, ops, i, id0) ==
    IF ops[i].name # "mem_effect.offset_ptr" THEN NotMatched(ops, id0)
    ELSE LET ptr == get_block_id_and_offset_from_pointer(op_pointer(ops[i]), id0)
             new_offset_op == BinaryBVOp_init(id0 + 2, "smt.bv.add", ptr.offset,
                                              op_offset(ops[i]))
             new_pointer == create_pointer(ptr.block_id, Result(new_offset_op, 1),
                                           id0 + 3)
         IN ReplaceByValues(ops, i, id0, ptr.ops \o <<new_offset_op>> \o new_pointer.ops,
                            <<new_pointer.res>>)

\* A LowerRead that wraps the input ub flag without the bounds check.
LowerRead_ubUnchanged(p, ops, i, id0) ==
    IF ops[i].name # "mem_effect.read" THEN NotMatched(ops, id0)
    ELSE LET ptr == get_block_id_and_offset_from_pointer(op_pointer(ops[i]), id0)
             s == get_memory_and_ub_from_state(op_state(ops[i]), id0 + 2)
             get_block_op == GetBlockOp(id0 + 4, s.memory, ptr.block_id)
             get_block_bytes_op == GetBlockBytesOp(id0 + 5, Result(get_block_op, 1))
             read_op == ReadBytesOp(id0 + 6, Result(get_block_bytes_op, 1), ptr.offset,
                                    ops[i].rtypes[2])
             new_state == create_state(s.memory, s.ub, id0 + 7)
         IN ReplaceByValues(ops, i, id0,
                ptr.ops \o s.ops \o <<get_block_op, get_block_bytes_op, read_op>>
                        \o new_state.ops,
                <<new_state.res, Result(read_op, 1)>>)

LowerRead(p, ops, i, id0) ==
    IF ops[i].name # "mem_effect.read" THEN NotMatched(ops, id0)
    ELSE LET ptr == get_block_id_and_offset_from_pointer(op_pointer(ops[i]), id0)
             s == get_memory_and_ub_from_state(op_state(ops[i]), id0 + 2)
             get_block_op == GetBlockOp(id0 + 4, s.memory, ptr.block_id)
             get_block_bytes_op == GetBlockBytesOp(id0 + 5, Result(get_block_op, 1))
             offset_in_bounds == check_bounds(ptr.offset, Result(get_block_op, 1), id0 + 6)
             new_ub_op == CoreBinOp(id0 + 9, "smt.or", s.ub, offset_in_bounds.res)
             read_op == ReadBytesOp(id0 + 10, Result(get_block_bytes_op, 1), ptr.offset,
                                    ops[i].rtypes[2])
             new_state == create_state(s.memory, Result(new_ub_op, 1), id0 + 11)
         IN ReplaceByValues(ops, i, id0,
                ptr.ops \o s.ops \o <<get_block_op, get_block_bytes_op>>
                        \o offset_in_bounds.ops \o <<new_ub_op, read_op>>
                        \o new_state.ops,
                <<new_state.res, Result(read_op, 1)>>)

LowerWrite(p, ops, i, id0) ==
    IF ops[i].name # "mem_effect.write" THEN NotMatched(ops, id0)
    ELSE LET ptr == get_block_id_and_offset_from_pointer(op_pointer(ops[i]), id0)
             s == get_memory_and_ub_from_state(op_state(ops[i]), id0 + 2)
             get_block_op == GetBlockOp(id0 + 4, s.memory, ptr.block_id)
             get_block_bytes_op == GetBlockBytesOp(id0 + 5, Result(get_block_op, 1))
             offset_in_bounds == check_bounds(ptr.offset, Result(get_block_op, 1), id0 + 6)
             new_ub_op == CoreBinOp(id0 + 9, "smt.or", s.ub, offset_in_bounds.res)
             write_op == WriteBytesOp(id0 + 10, write_value(ops[i]),
                                      Result(get_block_bytes_op, 1), ptr.offset)
             set_block_bytes_op == SetBlockBytesOp(id0 + 11, Result(get_block_op, 1),
                                                   Result(write_op, 1))
             set_block_op == SetBlockOp(id0 + 12, Result(set_block_bytes_op, 1),
                                        s.memory, ptr.block_id)
             new_state == create_state(Result(set_block_op, 1), Result(new_ub_op, 1),
                                       id0 + 13)
         IN ReplaceByValues(ops, i, id0,
                ptr.ops \o s.ops \o <<get_block_op, get_block_bytes_op>>
                        \o offset_in_bounds.ops
                        \o <<new_ub_op, write_op, set_block_bytes_op, set_block_op>>
                        \o new_state.ops,
                <<new_state.res>>)

-----------------------------------------------------------------------------
(* The pattern lists of the passes and the applier.                        *)

Variadic(comb, smt, empty_value) ==
    [kind |-> "variadic", comb |-> comb, smt |-> smt, empty_value |-> empty_value]

Trivial(comb, smt) == [kind |-> "binop", comb |-> comb, smt |-> smt, empty_value |-> 0]

Special(kind, comb) == [kind |-> kind, comb |-> comb, smt |-> "", empty_value |-> 0]

comb_to_smt_patterns ==
    << Variadic("comb.add", "smt.bv.add", 0),
       Variadic("comb.mul", "smt.bv.mul", 1),
       Trivial("comb.divu", "smt.bv.udiv"),
       Trivial("comb.divs", "smt.bv.sdiv"),
       Trivial("comb.modu", "smt.bv.urem"),
       Trivial("comb.mods", "smt.bv.srem"),
       Trivial("comb.shl", "smt.bv.shl"),
       Trivial("comb.shru", "smt.bv.lshr"),
       Trivial("comb.shrs", "smt.bv.ashr"),
       Trivial("comb.sub", "smt.bv.sub"),
       Variadic("comb.or", "smt.bv.or", 0),
       Variadic("comb.and", "smt.bv.and", 1),
       Variadic("comb.xor", "smt.bv.xor", 0),
       Special("notimpl", "comb.icmp"),
       Special("notimpl", "comb.parity"),
       Special("notimpl", "comb.extract"),
       Special("concat", "comb.concat"),
       Special("notimpl", "comb.replicate"),
       Special("mux", "comb.mux") >>

arith_to_smt_patterns ==
    << [kind |-> "arith_binop", comb |-> "arith.addi", smt |-> "smt.bv.add",
        empty_value |-> 0],
       Special("arith_constant", "arith.constant") >>

lower_effects_patterns ==
    << Special("trigger", "ub_effect.trigger"),
       Special("to_bool", "ub_effect.to_bool"),
       Special("generic", ""),
       Special("alloc", "mem_effect.alloc"),
       Special("offset", "mem_effect.offset_ptr"),
       Special("read", "mem_effect.read"),
       Special("write", "mem_effect.write") >>

match_and_rewrite(p, ops, i, id0) ==
    CASE p.kind = "variadic" -> VariadicOpPattern(p, ops, i, id0)
      [] p.kind = "binop" -> TrivialBinOpPattern(p, ops, i, id0)
      [] p.kind = "notimpl" -> NotImplementedPattern(p, ops, i, id0)
      [] p.kind = "concat" -> ConcatPattern(p, ops, i, id0)
      [] p.kind = "mux" -> MuxPattern(p, ops, i, id0)
      [] p.kind = "arith_binop" -> ArithBinOpPattern(p, ops, i, id0)
      [] p.kind = "arith_constant" -> ArithConstantPattern(p, ops, i, id0)

\* GreedyRewritePatternApplier: the patterns are tried in list order and the
\* first one that acts (or raises) decides the outcome.
RECURSIVE GreedyApply(_, _, _, _, _)
GreedyApply(patterns, k, ops, i, id0) ==
    IF k > Len(patterns) THEN NotMatched(ops, id0) @@ [pattern |-> 0]
    ELSE LET r == match_and_rewrite(patterns[k], ops, i, id0)
         IN IF r.act \/ r.err # "" THEN r @@ [pattern |-> k]
            ELSE GreedyApply(patterns, k + 1, ops, i, id0)

\* PatternRewriteWalker.rewrite_module on a flat block: after a rewrite the
\* walker stays at the same position, otherwise it moves to the next op.
RECURSIVE RewriteBlock(_, _, _, _)
RewriteBlock(patterns, ops, i, id0) ==
    IF i > Len(ops) THEN [err |-> "", ops |-> ops, nextId |-> id0]
    ELSE LET r == GreedyApply(patterns, 1, ops, i, id0)
         IN IF r.err # "" THEN [err |-> r.err, ops |-> r.ops, nextId |-> r.nextId]
            ELSE IF r.act THEN RewriteBlock(patterns, r.ops, i, r.nextId)
            ELSE RewriteBlock(patterns, ops, i + 1, id0)

\* CombToSMT.apply (FuncToSMTPattern and ReturnPattern never match the ops
\* of a block without functions).
CombToSMT_apply(ops, id0) == RewriteBlock(comb_to_smt_patterns, ops, 1, id0)

ArithToSMT_apply(ops, id0) == RewriteBlock(arith_to_smt_patterns, ops, 1, id0)

\* The applier and the walker of LowerEffectWithMemoryPass, over its own
\* pattern list.
match_and_rewrite_effects(p, ops, i, id0) ==
    CASE p.kind = "trigger" -> LowerTriggerOp(p, ops, i, id0)
      [] p.kind = "to_bool" -> LowerToBoolOp(p, ops, i, id0)
      [] p.kind = "generic" -> LowerGenericOp(p, ops, i, id0)
      [] p.kind = "alloc" -> LowerAlloc(p, ops, i, id0)
      [] p.kind = "offset" -> LowerPointerOffset(p, ops, i, id0)
      [] p.kind = "read" -> LowerRead(p, ops, i, id0)
      [] p.kind = "write" -> LowerWrite(p, ops, i, id0)

RECURSIVE GreedyApplyEffects(_, _, _, _)
GreedyApplyEffects(k, ops, i, id0) ==
    IF k > Len(lower_effects_patterns) THEN NotMatched(ops, id0) @@ [pattern |-> 0]
    ELSE LET r == match_and_rewrite_effects(lower_effects_patterns[k], ops, i, id0)
         IN IF r.act \/ r.err # "" THEN r @@ [pattern |-> k]
            ELSE GreedyApplyEffects(k + 1, ops, i, id0)

RECURSIVE RewriteBlockEffects(_, _, _)
RewriteBlockEffects(ops, i, id0) ==
    IF i > Len(ops) THEN [err |-> "", ops |-> ops, nextId |-> id0]
    ELSE LET r == GreedyApplyEffects(1, ops, i, id0)
         IN IF r.err # "" THEN [err |-> r.err, ops |-> r.ops, nextId |-> r.nextId]
            ELSE IF r.act THEN RewriteBlockEffects(r.ops, i, r.nextId)
            ELSE RewriteBlockEffects(ops, i + 1, id0)

LowerEffectWithMemoryPass_apply(ops, id0) == RewriteBlockEffects(ops, 1, id0)

-----------------------------------------------------------------------------
(* Inputs of comb-to-smt: a block that declares x, y (bit-vectors of width *)
(* W) and c (Bool), followed by comb operations of result type iW.  The    *)
(* first operand of every comb op after the first is the result of the op  *)
(* before it, so that the rewiring of uses is observable.                  *)

VariadicNames == {"comb.add", "comb.mul", "comb.and", "comb.or", "comb.xor"}

BinNames == {"comb.divu", "comb.divs", "comb.modu", "comb.mods", "comb.shl",
             "comb.shru", "comb.shrs", "comb.sub"}

NotImplNames == {"comb.icmp", "comb.parity", "comb.extract", "comb.replicate"}

CombConfigs ==
    {[name |-> nm, n |-> n] : nm \in VariadicNames \cup {"comb.concat"}, n \in 0..MaxArity}
    \cup {[name |-> nm, n |-> 2] : nm \in BinNames \cup {"comb.icmp"}}
    \cup {[name |-> nm, n |-> 1] : nm \in NotImplNames \ {"comb.icmp"}}
    \cup {[name |-> "comb.mux", n |-> 3]}

LaterConfigs ==
    {c \in CombConfigs :
        c.name \in {"comb.add", "comb.and", "comb.sub", "comb.parity"} /\ c.n <= 2}

RECURSIVE LaterSeqs(_)
LaterSeqs(n) ==
    IF n = 0 THEN {<<>>}
    ELSE {<<>>} \cup {<<c>> \o t : c \in LaterConfigs, t \in LaterSeqs(n - 1)}

CombPrograms == {<<c>> \o t : c \in CombConfigs, t \in LaterSeqs(MaxCombOps - 1)}

CombArgs(W) ==
    << DeclareConstOp(1, BitVectorType(W)), DeclareConstOp(2, BitVectorType(W)),
       DeclareConstOp(3, BoolType) >>

CombOpOf(c, id, first, W) ==
    LET x == Result(CombArgs(W)[1], 1)
        y == Result(CombArgs(W)[2], 1)
        b == Result(CombArgs(W)[3], 1)
        operands ==
            IF c.name = "comb.mux" THEN <<b, first, y>>
            ELSE [j \in 1..c.n |-> IF j = 1 THEN first ELSE IF j % 2 = 0 THEN y ELSE x]
        width == IF c.name = "comb.concat" THEN c.n * W ELSE W
    IN MkOp(id, c.name, operands, <<IntegerType(width)>>)

RECURSIVE CombBlock(_, _, _)
CombBlock(cfgs, W, acc) ==
    IF Len(acc) = Len(CombArgs(W)) + Len(cfgs) THEN acc
    ELSE LET j == Len(acc) - Len(CombArgs(W)) + 1
             first == IF j = 1 THEN Result(acc[1], 1) ELSE Result(acc[Len(acc)], 1)
         IN CombBlock(cfgs, W, Append(acc, CombOpOf(cfgs[j], Len(acc) + 1, first, W)))

EmptyTable == [v \in {} |-> 0]

InitComb ==
    /\ \E cfgs \in CombPrograms, W \in 1..MaxWidth :
           input = CombBlock(cfgs, W, CombArgs(W))
    /\ block = input
    /\ idx = 1
    /\ nextId = Len(input) + 1
    /\ pdl_op_to_op = EmptyTable
    /\ preconditions = <<>>
    /\ erased = {}
    /\ status = "running"

-----------------------------------------------------------------------------
(* comb-to-smt as a walk: one action per pattern class.                    *)

Visiting == status = "running" /\ idx <= Len(block)

CombOutcome == GreedyApply(comb_to_smt_patterns, 1, block, idx, nextId)

\* The walker applies the pattern list to the visited op; kind names the
\* class of the pattern that acted or raised.
CombRewrite(kind) ==
    /\ Visiting
    /\ LET r == CombOutcome IN
        /\ r.pattern # 0
        /\ comb_to_smt_patterns[r.pattern].kind = kind
        /\ IF r.err # ""
           THEN status' = r.err /\ UNCHANGED <<block, nextId>>
           ELSE block' = r.ops /\ nextId' = r.nextId /\ UNCHANGED status
    /\ UNCHANGED <<input, idx, pdl_op_to_op, preconditions, erased>>

CombVariadic == CombRewrite("variadic")

CombTrivialBinOp == CombRewrite("binop")

CombNotImplemented == CombRewrite("notimpl")

CombConcat == CombRewrite("concat")

CombMux == CombRewrite("mux")

\* No pattern acts on the visited op: the walker moves on.
CombSkip ==
    /\ Visiting
    /\ CombOutcome.pattern = 0
    /\ idx' = idx + 1
    /\ UNCHANGED <<input, block, nextId, pdl_op_to_op, preconditions, erased, status>>

\* The walker has passed the last op: the pass returns.
WalkEnd ==
    /\ status = "running"
    /\ idx > Len(block)
    /\ status' = "done"
    /\ UNCHANGED <<input, block, idx, nextId, pdl_op_to_op, preconditions, erased>>

NextComb ==
    \/ CombVariadic
    \/ CombTrivialBinOp
    \/ CombNotImplemented
    \/ CombConcat
    \/ CombMux
    \/ CombSkip
    \/ WalkEnd

SpecComb == InitComb /\ [][NextComb]_vars

-----------------------------------------------------------------------------
(* pdl and pdl.df operations.                                              *)

PdlType(k) == OtherType(k)

TypeOp(id, constantType) ==
    [MkOp(id, "pdl.type", <<>>, <<PdlType("pdl.type")>>) EXCEPT !.ty = constantType]

AttributeOp(id, value, type) ==
    [MkOp(id, "pdl.attribute", <<>>, <<PdlType("pdl.attribute")>>)
        EXCEPT !.val = value, !.ty = type]

OperandOp(id, value_type) ==
    MkOp(id, "pdl.operand", <<value_type>>, <<PdlType("pdl.value")>>)

OperationOp(id, opName, operand_values, attribute_values, names, type_values) ==
    [MkOp(id, "pdl.operation", operand_values \o attribute_values \o type_values,
          <<PdlType("pdl.operation")>>)
        EXCEPT !.opName = opName, !.names = names,
               !.seg = <<Len(operand_values), Len(attribute_values), Len(type_values)>>]

ResultOp(id, index, parent) ==
    [MkOp(id, "pdl.result", <<parent>>, <<PdlType("pdl.value")>>) EXCEPT !.index = index]

ReplaceOp(id, op_value, repl_operation, repl_values) ==
    [MkOp(id, "pdl.replace", <<op_value>> \o repl_operation \o repl_values, <<>>)
        EXCEPT !.seg = <<1, Len(repl_operation), Len(repl_values)>>]

\* pdl.erase: no pattern of the pass is written for it.
EraseOp(id, op_value) == MkOp(id, "pdl.erase", <<op_value>>, <<>>)

RewriteOp(id, root, body) ==
    [MkOp(id, "pdl.rewrite", <<root>>, <<>>) EXCEPT !.body = body]

DataflowRewriteOp(id, body) ==
    [MkOp(id, "pdl.df.rewrite", <<>>, <<>>) EXCEPT !.body = body]

GetOp(id, value) ==
    MkOp(id, "pdl.df.get", <<value>>, <<PdlType("pdl.value"), PdlType("pdl.value")>>)

AttachOp(id, value, domains) == MkOp(id, "pdl.df.attach", <<value>> \o domains, <<>>)

PatternOp(id, body) == [MkOp(id, "pdl.pattern", <<>>, <<>>) EXCEPT !.body = body]

TransferOp(id, name, lhs, rhs) ==
    MkOp(id, name, <<lhs, rhs>>, <<OtherType("transfer.integer")>>)

\* Operand groups of pdl.operation and pdl.replace.
Segment(op, s) ==
    LET start == IF s = 1 THEN 0 ELSE IF s = 2 THEN op.seg[1] ELSE op.seg[1] + op.seg[2]
    IN SubSeq(op.operands, start + 1, start + op.seg[s])

operand_values(op) == Segment(op, 1)

attribute_values(op) == Segment(op, 2)

type_values(op) == Segment(op, 3)

repl_operation(op) == Segment(op, 2)

repl_values(op) == Segment(op, 3)

-----------------------------------------------------------------------------
(* Inputs of pdl-to-smt: a module of pdl.pattern ops.  Every pattern       *)
(* declares a type t = iW, operands x and y, an operation op and g         *)
(* pdl.df.get ops on x, and ends with a rewrite whose body depends on the  *)
(* shape.                                                                  *)

ReplaceShapes == {"replace_val", "replace_op", "replace_res", "replace_const",
                  "replace_combsub", "replace_noresult", "replace_tworesults",
                  "replace_op_tworesults", "erase"}

AttachShapes == {"attach", "attach_masked"}

\* A pattern whose pdl.operation names a variadic comb op on the first n of
\* the operands x and y.
VariadicConfigs ==
    {[shape |-> "replace_variadic", g |-> 0, w |-> 1, comb |-> nm, n |-> n] :
        nm \in VariadicNames, n \in 0..2}

PatternConfigs ==
    {[shape |-> s, g |-> g, w |-> w] :
        s \in {"replace_val", "attach"}, g \in 0..MaxGets, w \in 1..MaxWidth}
    \cup {[shape |-> s, g |-> 1, w |-> 1] :
        s \in (ReplaceShapes \cup AttachShapes) \ {"replace_val", "attach"}}
    \cup VariadicConfigs

\* The values a pattern's ops are built from, by the id of the defining op.
PdlValue(id, i, k) == [op |-> id, idx |-> i, type |-> PdlType(k)]

\* Number of ops that precede the matched pdl.operation after t, x and y.
PreLen(c) == IF c.shape = "replace_const" THEN 3 ELSE 0

MidLen(c) == IF c.shape = "attach_masked" THEN 3 ELSE 0

\* t = pdl.type : iW, x = pdl.operand : t, y = pdl.operand : t
PatternHead(c, b) ==
    << TypeOp(b + 1, IntegerType(c.w)),
       OperandOp(b + 2, PdlValue(b + 1, 1, "pdl.type")),
       OperandOp(b + 3, PdlValue(b + 1, 1, "pdl.type")) >>

\* a = pdl.attribute 0 : iW, c = pdl.operation "arith.constant" {value = a},
\* r = pdl.result 0 of c
PatternConstant(c, b) ==
    IF c.shape # "replace_const" THEN <<>>
    ELSE << AttributeOp(b + 4, 0, IntegerType(c.w)),
            OperationOp(b + 5, "arith.constant", <<>>,
                        <<PdlValue(b + 4, 1, "pdl.attribute")>>, <<"value">>,
                        <<PdlValue(b + 1, 1, "pdl.type")>>),
            ResultOp(b + 6, 0, PdlValue(b + 5, 1, "pdl.operation")) >>

\* op = pdl.operation "arith.addi"(x, y) -> t  (or comb.sub, or x and r; or
\* an operation without result, or one with two results, or a variadic comb
\* op on the first n operands)
PatternOperation(c, b) ==
    OperationOp(b + 4 + PreLen(c),
                CASE c.shape = "replace_combsub" -> "comb.sub"
                  [] c.shape = "replace_variadic" -> c.comb
                  [] c.shape = "replace_noresult" -> "func.return"
                  [] c.shape = "replace_tworesults" -> "memory.get_fresh_block_id"
                  [] OTHER -> "arith.addi",
                IF c.shape = "replace_variadic"
                THEN SubSeq(<< PdlValue(b + 2, 1, "pdl.value"),
                               PdlValue(b + 3, 1, "pdl.value") >>, 1, c.n)
                ELSE << PdlValue(b + 2, 1, "pdl.value"),
                        IF c.shape = "replace_const" THEN PdlValue(b + 6, 1, "pdl.value")
                        ELSE PdlValue(b + 3, 1, "pdl.value") >>,
                <<>>, <<>>,
                CASE c.shape = "replace_noresult" -> <<>>
                  [] c.shape = "replace_tworesults" ->
                        <<PdlValue(b + 1, 1, "pdl.type"), PdlValue(b + 1, 1, "pdl.type")>>
                  [] OTHER -> <<PdlValue(b + 1, 1, "pdl.type")>>)

\* g times: zeros, ones = pdl.df.get(x)
PatternGets(c, b) ==
    [j \in 1..c.g |-> GetOp(b + 4 + PreLen(c) + j, PdlValue(b + 2, 1, "pdl.value"))]

\* The ops after the gets of an attach_masked pattern; f is the id of the
\* last op before them, (z, o) the domain of x.
PatternMasked(c, f, x, y, z, o) ==
    IF c.shape # "attach_masked" THEN <<>>
    ELSE << TransferOp(f + 1, "transfer.and", x, y),
            TransferOp(f + 2, "transfer.and", z, y),
            TransferOp(f + 3, "transfer.or", o, y) >>

\* The rewrite op of the pattern, of id r; op is the matched operation.
PatternRewriteOp(c, r, f, op, t, x, y, z, o) ==
    CASE c.shape \in {"replace_val", "replace_const", "replace_combsub",
                      "replace_noresult", "replace_tworesults", "replace_variadic"} ->
            RewriteOp(r, op, <<ReplaceOp(r + 1, op, <<>>, <<x>>)>>)
      [] c.shape = "erase" ->
            RewriteOp(r, op, <<EraseOp(r + 1, op)>>)
      [] c.shape \in {"replace_op", "replace_op_tworesults"} ->
            RewriteOp(r, op,
                << OperationOp(r + 1,
                               IF c.shape = "replace_op" THEN "arith.addi"
                               ELSE "memory.get_fresh_block_id",
                               <<y, x>>, <<>>, <<>>,
                               IF c.shape = "replace_op" THEN <<t>> ELSE <<t, t>>),
                   ReplaceOp(r + 2, op, <<PdlValue(r + 1, 1, "pdl.operation")>>, <<>>) >>)
      [] c.shape = "replace_res" ->
            RewriteOp(r, op,
                << OperationOp(r + 1, "arith.addi", <<y, x>>, <<>>, <<>>, <<t>>),
                   ResultOp(r + 2, 0, PdlValue(r + 1, 1, "pdl.operation")),
                   ReplaceOp(r + 3, op, <<>>, <<PdlValue(r + 2, 1, "pdl.value")>>) >>)
      [] c.shape = "attach" ->
            DataflowRewriteOp(r, <<AttachOp(r + 1, x, <<z, o>>)>>)
      [] c.shape = "attach_masked" ->
            DataflowRewriteOp(r,
                <<AttachOp(r + 1, PdlValue(f + 1, 1, "transfer.integer"),
                           << PdlValue(f + 2, 1, "transfer.integer"),
                              PdlValue(f + 3, 1, "transfer.integer") >>)>>)

PatternTail(c, b, f, x, y, z, o) ==
    PatternMasked(c, f, x, y, z, o)
        \o << PatternRewriteOp(c, f + MidLen(c) + 1, f,
                               PdlValue(b + 4 + PreLen(c), 1, "pdl.operation"),
                               PdlValue(b + 1, 1, "pdl.type"), x, y, z, o) >>

\* The pattern of configuration c whose ops take their ids from b on.  The
\* domain (z, o) is the result pair of the last get, or (y, y) without gets.
PatternOf(c, b) ==
    PatternOp(b,
        PatternHead(c, b) \o PatternConstant(c, b) \o <<PatternOperation(c, b)>>
            \o PatternGets(c, b)
            \o PatternTail(c, b, b + 4 + PreLen(c) + c.g,
                    PdlValue(b + 2, 1, "pdl.value"), PdlValue(b + 3, 1, "pdl.value"),
                    IF c.g = 0 THEN PdlValue(b + 3, 1, "pdl.value")
                    ELSE PdlValue(b + 4 + PreLen(c) + c.g, 1, "pdl.value"),
                    IF c.g = 0 THEN PdlValue(b + 3, 1, "pdl.value")
                    ELSE PdlValue(b + 4 + PreLen(c) + c.g, 2, "pdl.value")))

RECURSIVE CountOps(_)
CountOps(ops) ==
    IF Len(ops) = 0 THEN 0
    ELSE 1 + CountOps(ops[1].body) + CountOps(Tail(ops))

RECURSIVE PDLModule(_, _)
PDLModule(cfgs, acc) ==
    IF Len(acc) = Len(cfgs) THEN acc
    ELSE PDLModule(cfgs, Append(acc, PatternOf(cfgs[Len(acc) + 1], CountOps(acc) + 1)))

\* The patterns that may follow the first pattern of a module.
LaterPatternConfigs ==
    {c \in PatternConfigs : c.shape \in {"replace_val", "attach"} /\ c.g <= 1 /\ c.w = 1}

RECURSIVE LaterPatternSeqs(_)
LaterPatternSeqs(n) ==
    IF n = 0 THEN {<<>>}
    ELSE {<<>>} \cup {<<c>> \o t : c \in LaterPatternConfigs, t \in LaterPatternSeqs(n - 1)}

PDLPrograms ==
    {<<c>> \o t : c \in PatternConfigs, t \in LaterPatternSeqs(MaxPatterns - 1)}

InitPDL ==
    /\ \E cfgs \in PDLPrograms : input = PDLModule(cfgs, <<>>)
    /\ block = input
    /\ idx = 1
    /\ nextId = CountOps(input) + 1
    /\ pdl_op_to_op = EmptyTable
    /\ preconditions = <<>>
    /\ erased = {}
    /\ status = "running"

-----------------------------------------------------------------------------
(* pdl-to-smt: helpers of pdl_to_smt.py.                                   *)

\* isinstance(value, ErasedSSAValue): the owner was erased with safe_erase=False.
isErased(value) == \E o \in erased : o.id = value.op

Owner(value) == CHOOSE o \in erased : o.id = value.op

_get_type_of_erased_type_value(value) ==
    IF ~isErased(value) THEN [err |-> "AssertionError", attr |-> NoType]
    ELSE IF Owner(value).name # "pdl.type" THEN [err |-> "AssertionError", attr |-> NoType]
    ELSE IF Owner(value).ty = NoType THEN [err |-> "Exception", attr |-> NoType]
    ELSE [err |-> "", attr |-> Owner(value).ty]

_get_attr_of_erased_attr_value(value) ==
    IF ~isErased(value) THEN [err |-> "AssertionError", val |-> 0, ty |-> NoType]
    ELSE IF Owner(value).name # "pdl.attribute"
    THEN [err |-> "AssertionError", val |-> 0, ty |-> NoType]
    ELSE IF Owner(value).ty = NoType THEN [err |-> "Exception", val |-> 0, ty |-> NoType]
    ELSE [err |-> "", val |-> Owner(value).val, ty |-> Owner(value).ty]

\* The first exception raised while evaluating a list of results, "" if none.
FirstErr(rs) ==
    IF \A j \in 1..Len(rs) : rs[j].err = "" THEN ""
    ELSE rs[CHOOSE j \in 1..Len(rs) :
                rs[j].err # "" /\ \A h \in 1..(j - 1) : rs[h].err = ""].err

kb_analysis_correct(value, zeros, ones, id0) ==
    IF ~isBitVectorType(value.type)
    THEN [err |-> "AssertionError", res |-> value, ops |-> <<>>]
    ELSE LET and_op_zeros == BinaryBVOp_init(id0, "smt.bv.and", value, zeros)
             zero == ConstantOp(id0 + 1, 0, value.type.w)
             zeros_correct == CoreBinOp(id0 + 2, "smt.eq", Result(and_op_zeros, 1),
                                        Result(zero, 1))
             and_op_ones == BinaryBVOp_init(id0 + 3, "smt.bv.and", value, ones)
             ones_correct == CoreBinOp(id0 + 4, "smt.eq", Result(and_op_ones, 1), ones)
             all_correct == CoreBinOp(id0 + 5, "smt.and", Result(zeros_correct, 1),
                                      Result(ones_correct, 1))
         IN [err |-> "", res |-> Result(all_correct, 1),
             ops |-> <<and_op_zeros, zero, zeros_correct, and_op_ones, ones_correct,
                       all_correct>>]

\* The loop over preconditions[1:] of ReplaceRewrite and AttachOpRewrite: an
\* smt.and per further precondition, each inserted before the matched op.
RECURSIVE and_preconditions_loop(_, _, _, _, _)
and_preconditions_loop(pre, k, and_preconditions, rw, id0) ==
    IF k > Len(pre)
    THEN [res |-> and_preconditions, rw |-> rw, nextId |-> id0]
    ELSE LET and_preconditions_op == CoreBinOp(id0, "smt.and", and_preconditions, pre[k])
         IN and_preconditions_loop(pre, k + 1, Result(and_preconditions_op, 1),
                insert_op_before_matched_op(rw, <<and_preconditions_op>>), id0 + 1)

\* A ReplaceRewrite that forgets the preconditions and asserts the distinct alone.
ReplaceRewrite_emit_noPre(pre, replacing_value, replaced_result, rw, id0) ==
    LET distinct_op == CoreBinOp(id0, "smt.distinct", replacing_value, replaced_result)
        assert_op == AssertOp(id0 + 1, Result(distinct_op, 1))
    IN [rw |-> replace_matched_op(rw, <<distinct_op, assert_op>>, <<>>),
        nextId |-> id0 + 2]

\* The body of ReplaceRewrite once replaced and replacing values are known.
ReplaceRewrite_emit(pre, replacing_value, replaced_result, rw, id0) ==
    LET distinct_op == CoreBinOp(id0, "smt.distinct", replacing_value, replaced_result)
    IN IF Len(pre) = 0
       THEN LET assert_op == AssertOp(id0 + 1, Result(distinct_op, 1))
            IN [rw |-> replace_matched_op(rw, <<distinct_op, assert_op>>, <<>>),
                nextId |-> id0 + 2]
       ELSE LET l == and_preconditions_loop(pre, 2, pre[1], rw, id0 + 1)
                replace_correct == CoreBinOp(l.nextId, "smt.and",
                                             Result(distinct_op, 1), l.res)
                assert_op == AssertOp(l.nextId + 1, Result(replace_correct, 1))
            IN [rw |-> replace_matched_op(l.rw,
                          <<distinct_op, replace_correct, assert_op>>, <<>>),
                nextId |-> l.nextId + 2]

\* An AttachOpRewrite that asserts the analysis correct instead of incorrect.
AttachOpRewrite_emit_noNot(pre, kb, rw, id0) ==
    LET r1 == insert_op_before_matched_op(rw, kb.ops)
    IN IF Len(pre) = 0
       THEN [rw |-> replace_matched_op(r1, <<AssertOp(id0, kb.res)>>, <<>>),
             nextId |-> id0 + 1]
       ELSE LET l == and_preconditions_loop(pre, 2, pre[1], r1, id0)
                implies == CoreBinOp(l.nextId, "smt.and", l.res, kb.res)
                r3 == insert_op_before_matched_op(l.rw, <<implies>>)
            IN [rw |-> replace_matched_op(r3,
                          <<AssertOp(l.nextId + 1, Result(implies, 1))>>, <<>>),
                nextId |-> l.nextId + 2]

\* The body of AttachOpRewrite once kb_analysis_correct has succeeded.
AttachOpRewrite_emit(pre, kb, rw, id0) ==
    LET r1 == insert_op_before_matched_op(rw, kb.ops)
        analysis_incorrect_op == CoreNotOp(id0, kb.res)
        r2 == insert_op_before_matched_op(r1, <<analysis_incorrect_op>>)
        analysis_incorrect == Result(analysis_incorrect_op, 1)
    IN IF Len(pre) = 0
       THEN [rw |-> replace_matched_op(r2, <<AssertOp(id0 + 1, analysis_incorrect)>>, <<>>),
             nextId |-> id0 + 2]
       ELSE LET l == and_preconditions_loop(pre, 2, pre[1], r2, id0 + 1)
                implies == CoreBinOp(l.nextId, "smt.and", l.res, analysis_incorrect)
                r3 == insert_op_before_matched_op(l.rw, <<implies>>)
            IN [rw |-> replace_matched_op(r3,
                          <<AssertOp(l.nextId + 1, Result(implies, 1))>>, <<>>),
                nextId |-> l.nextId + 2]

\* A GetOpRewrite that hands over its two results in the wrong order.
GetOp_new_results_swapped(zeros, ones) == <<ones, zeros>>

\* The values GetOpRewrite hands to replace_matched_op as new_results.
GetOp_new_results(zeros, ones) == <<zeros, ones>>

\* The preconditions list after GetOpRewrite has run.
GetOp_preconditions(pre, all_correct) == Append(pre, all_correct)

-----------------------------------------------------------------------------
(* pdl-to-smt as a walk: one action per rewrite pattern.                   *)

Cur == block[idx]

Raise(e) ==
    /\ status' = e
    /\ UNCHANGED <<input, block, idx, nextId, pdl_op_to_op, preconditions, erased>>

Matches(name) == Visiting /\ Cur.name = name

\* A PatternRewrite that inlines the body and forgets the check_sat.
PatternRewrite_noCheckSat ==
    /\ Matches("pdl.pattern")
    /\ block' = erase_matched_op(
                    inline_block_before_matched_op(Rewriter(block, idx), Cur.body)).ops
    /\ UNCHANGED <<input, idx, nextId, pdl_op_to_op, preconditions, erased, status>>

PatternRewrite ==
    /\ Matches("pdl.pattern")
    /\ LET r1 == inline_block_before_matched_op(Rewriter(block, idx), Cur.body)
           r2 == insert_op_before_matched_op(r1, <<CheckSatOp(nextId)>>)
       IN block' = erase_matched_op(r2).ops
    /\ nextId' = nextId + 1
    /\ UNCHANGED <<input, idx, pdl_op_to_op, preconditions, erased, status>>

RewriteRewrite ==
    /\ Matches("pdl.rewrite")
    /\ block' = erase_matched_op(
                    inline_block_before_matched_op(Rewriter(block, idx), Cur.body)).ops
    /\ UNCHANGED <<input, idx, nextId, pdl_op_to_op, preconditions, erased, status>>

DataflowRewriteRewrite ==
    /\ Matches("pdl.df.rewrite")
    /\ block' = erase_matched_op(
                    inline_block_before_matched_op(Rewriter(block, idx), Cur.body)).ops
    /\ UNCHANGED <<input, idx, nextId, pdl_op_to_op, preconditions, erased, status>>

\* erase_matched_op(safe_erase=False): the uses of the results stay behind
\* as ErasedSSAValue.
UnsafeErase ==
    /\ block' = erase_matched_op(Rewriter(block, idx)).ops
    /\ erased' = erased \cup {Cur}

TypeRewrite ==
    /\ Matches("pdl.type")
    /\ UnsafeErase
    /\ UNCHANGED <<input, idx, nextId, pdl_op_to_op, preconditions, status>>

AttributeRewrite ==
    /\ Matches("pdl.attribute")
    /\ UnsafeErase
    /\ UNCHANGED <<input, idx, nextId, pdl_op_to_op, preconditions, status>>

OperandRewrite ==
    /\ Matches("pdl.operand")
    /\ IF Len(Cur.operands) = 0 THEN Raise("Exception")
       ELSE LET type == _get_type_of_erased_type_value(Cur.operands[1]) IN
            IF type.err # "" THEN Raise(type.err)
            ELSE LET new_op == DeclareConstOp(nextId, convert_type(type.attr))
                 IN /\ block' = replace_matched_op(Rewriter(block, idx), <<new_op>>,
                                                   default_results(<<new_op>>)).ops
                    /\ nextId' = nextId + 1
                    /\ UNCHANGED <<input, idx, pdl_op_to_op, preconditions, erased,
                                   status>>

\* op_def.create(operands=op.operand_values, result_types=..., attributes=...)
OperationRewrite_create(op, result_types, attributes, id0) ==
    [MkOp(id0, op.opName, operand_values(op), result_types)
        EXCEPT !.val = IF Len(attributes) = 0 THEN 0 ELSE attributes[1].val,
               !.ty = IF Len(attributes) = 0 THEN NoType ELSE attributes[1].ty,
               !.names = op.names]

\* CombToSMT().apply on what ArithToSMT().apply left (a is its outcome).
OperationRewrite_comb(a) ==
    IF a.err # "" THEN a ELSE CombToSMT_apply(a.ops, a.nextId)

\* The sub-module of OperationRewrite: the synthesized op on its own, lowered
\* by arith-to-smt and then comb-to-smt.
OperationRewrite_lower(op, result_types, attributes, id0) ==
    OperationRewrite_comb(
        ArithToSMT_apply(<<OperationRewrite_create(op, result_types, attributes, id0)>>,
                         id0 + 1))

\* An OperationRewrite that binds the last op but leaves the lowered ops out
\* of the block.
OperationRewrite_bind_noInline(m) ==
    IF m.err # "" THEN Raise(m.err)
    ELSE IF Len(m.ops) = 0 THEN Raise("AssertionError")
    ELSE /\ pdl_op_to_op' =
              [v \in DOMAIN pdl_op_to_op \cup {Result(Cur, 1)} |->
                  IF v = Result(Cur, 1) THEN m.ops[Len(m.ops)] ELSE pdl_op_to_op[v]]
         /\ block' = erase_matched_op(Rewriter(block, idx)).ops
         /\ erased' = erased \cup {Cur}
         /\ nextId' = m.nextId
         /\ UNCHANGED <<input, idx, preconditions, status>>

\* The end of OperationRewrite, m being the lowered sub-module.
OperationRewrite_bind(m) ==
    IF m.err # "" THEN Raise(m.err)
    ELSE IF Len(m.ops) = 0 THEN Raise("AssertionError")
    ELSE /\ pdl_op_to_op' =
              [v \in DOMAIN pdl_op_to_op \cup {Result(Cur, 1)} |->
                  IF v = Result(Cur, 1) THEN m.ops[Len(m.ops)] ELSE pdl_op_to_op[v]]
         /\ block' = erase_matched_op(
                         inline_block_before_matched_op(Rewriter(block, idx), m.ops)).ops
         /\ erased' = erased \cup {Cur}
         /\ nextId' = m.nextId
         /\ UNCHANGED <<input, idx, preconditions, status>>

\* The middle of OperationRewrite, once the types and attributes are read.
OperationRewrite_synth(types, attrs) ==
    IF FirstErr(types) # "" THEN Raise(FirstErr(types))
    ELSE IF FirstErr(attrs) # "" THEN Raise(FirstErr(attrs))
    ELSE OperationRewrite_bind(
            OperationRewrite_lower(Cur, [j \in 1..Len(types) |-> types[j].attr],
                                   attrs, nextId))

OperationRewrite ==
    /\ Matches("pdl.operation")
    /\ IF Cur.opName = "" THEN Raise("Exception")
       ELSE OperationRewrite_synth(
                [j \in 1..Len(type_values(Cur)) |->
                    _get_type_of_erased_type_value(type_values(Cur)[j])],
                [j \in 1..Len(attribute_values(Cur)) |->
                    _get_attr_of_erased_attr_value(attribute_values(Cur)[j])])

\* A check that rejects only the operations without result.
not_one_result_onlyNone(o) == Len(o.rtypes) = 0

\* len(op.results) != 1
not_one_result(o) == Len(o.rtypes) # 1

ReplaceRewrite ==
    /\ Matches("pdl.replace")
    /\ LET op_value == Cur.operands[1] IN
       IF ~isErased(op_value) THEN Raise("AssertionError")
       ELSE IF op_value \notin DOMAIN pdl_op_to_op THEN Raise("KeyError")
       ELSE LET replaced_op == pdl_op_to_op[op_value] IN
       IF not_one_result(replaced_op) THEN Raise("Exception")
       ELSE IF Len(repl_values(Cur)) # 0 /\ Len(repl_values(Cur)) # 1
       THEN Raise("AssertionError")
       ELSE IF Len(repl_values(Cur)) = 0 /\
               (Len(repl_operation(Cur)) = 0 \/ ~isErased(repl_operation(Cur)[1]))
       THEN Raise("AssertionError")
       ELSE IF Len(repl_values(Cur)) = 0 /\ repl_operation(Cur)[1] \notin DOMAIN pdl_op_to_op
       THEN Raise("KeyError")
       ELSE IF Len(repl_values(Cur)) = 0 /\
               not_one_result(pdl_op_to_op[repl_operation(Cur)[1]])
       THEN Raise("Exception")
       ELSE LET replacing_value ==
                    IF Len(repl_values(Cur)) # 0 THEN repl_values(Cur)[1]
                    ELSE Result(pdl_op_to_op[repl_operation(Cur)[1]], 1)
                e == ReplaceRewrite_emit(preconditions, replacing_value,
                                         Result(replaced_op, 1),
                                         Rewriter(block, idx), nextId)
            IN /\ block' = e.rw.ops
               /\ nextId' = e.nextId
               /\ UNCHANGED <<input, idx, pdl_op_to_op, preconditions, erased, status>>

ResultRewrite ==
    /\ Matches("pdl.result")
    /\ LET parent == Cur.operands[1] IN
       IF ~isErased(parent) THEN Raise("AssertionError")
       ELSE IF parent \notin DOMAIN pdl_op_to_op THEN Raise("KeyError")
       ELSE IF Cur.index + 1 > Len(pdl_op_to_op[parent].rtypes) THEN Raise("IndexError")
       ELSE LET result == Result(pdl_op_to_op[parent], Cur.index + 1)
            IN /\ block' = replace_matched_op(Rewriter(block, idx), <<>>, <<result>>).ops
               /\ UNCHANGED <<input, idx, nextId, pdl_op_to_op, preconditions, erased,
                              status>>

GetOpRewrite ==
    /\ Matches("pdl.df.get")
    /\ LET value == Cur.operands[1] IN
       IF ~isBitVectorType(value.type) THEN Raise("AssertionError")
       ELSE LET zeros_op == DeclareConstOp(nextId, value.type)
                ones_op == DeclareConstOp(nextId + 1, value.type)
                zeros == Result(zeros_op, 1)
                ones == Result(ones_op, 1)
                kb == kb_analysis_correct(value, zeros, ones, nextId + 2)
            IN /\ preconditions' = GetOp_preconditions(preconditions, kb.res)
               /\ block' = replace_matched_op(Rewriter(block, idx),
                               <<zeros_op, ones_op>> \o kb.ops,
                               GetOp_new_results(zeros, ones)).ops
               /\ nextId' = nextId + 2 + Len(kb.ops)
               /\ UNCHANGED <<input, idx, pdl_op_to_op, erased, status>>

AttachOpRewrite ==
    /\ Matches("pdl.df.attach")
    /\ IF Len(Cur.operands) # 3 THEN Raise("AssertionError")
       ELSE LET kb == kb_analysis_correct(Cur.operands[1], Cur.operands[2],
                                          Cur.operands[3], nextId)
            IN IF kb.err # "" THEN Raise(kb.err)
               ELSE LET e == AttachOpRewrite_emit(preconditions, kb,
                                 Rewriter(block, idx), nextId + Len(kb.ops))
                    IN /\ block' = e.rw.ops
                       /\ nextId' = e.nextId
                       /\ UNCHANGED <<input, idx, pdl_op_to_op, preconditions, erased,
                                      status>>

\* trivial_pattern(transfer.AndOp, smt_bv.AndOp), trivial_pattern(transfer.OrOp,
\* smt_bv.OrOp): rewrite_type.create with the type of the first operand.
TransferNames == {"transfer.and", "transfer.or"}

TrivialPattern ==
    /\ Visiting
    /\ Cur.name \in TransferNames
    /\ LET new_op == Op_create(nextId,
                         IF Cur.name = "transfer.and" THEN "smt.bv.and" ELSE "smt.bv.or",
                         Cur.operands, <<Cur.operands[1].type>>)
       IN block' = replace_matched_op(Rewriter(block, idx), <<new_op>>,
                                      default_results(<<new_op>>)).ops
    /\ nextId' = nextId + 1
    /\ UNCHANGED <<input, idx, pdl_op_to_op, preconditions, erased, status>>

PdlNames == {"pdl.pattern", "pdl.rewrite", "pdl.df.rewrite", "pdl.type",
             "pdl.attribute", "pdl.operand", "pdl.df.get", "pdl.operation",
             "pdl.replace", "pdl.result", "pdl.df.attach"}

\* None of the patterns of the pass acts on the visited op.
PDLSkip ==
    /\ Visiting
    /\ Cur.name \notin PdlNames \cup TransferNames
    /\ GreedyApply(arith_to_smt_patterns \o comb_to_smt_patterns, 1, block, idx,
                   nextId).pattern = 0
    /\ idx' = idx + 1
    /\ UNCHANGED <<input, block, nextId, pdl_op_to_op, preconditions, erased, status>>

NextPDL ==
    \/ PatternRewrite
    \/ RewriteRewrite
    \/ DataflowRewriteRewrite
    \/ TypeRewrite
    \/ AttributeRewrite
    \/ OperandRewrite
    \/ GetOpRewrite
    \/ OperationRewrite
    \/ ReplaceRewrite
    \/ ResultRewrite
    \/ AttachOpRewrite
    \/ TrivialPattern
    \/ PDLSkip
    \/ WalkEnd

SpecPDL == InitPDL /\ [][NextPDL]_vars

-----------------------------------------------------------------------------
(* Verification of an smt.bv.constant: the block holds one constant whose  *)
(* attribute <v : w> is verified.                                          *)

RECURSIVE Pow2(_)
Pow2(n) == IF n = 0 THEN 1 ELSE 2 * Pow2(n - 1)

\* A verify whose upper bound is inclusive.
BitVectorValue_verify_inclusive(value, width) ==
    IF ~(0 <= value /\ value <= Pow2(width)) THEN "ValueError" ELSE ""

\* BitVectorValue.verify: "" when the attribute verifies, else the exception.
BitVectorValue_verify(value, width) ==
    IF ~(0 <= value /\ value < Pow2(width)) THEN "ValueError" ELSE ""

InitVerify ==
    /\ \E v \in (-MaxValue)..MaxValue, w \in 0..MaxWidth : input = <<ConstantOp(1, v, w)>>
    /\ block = input
    /\ idx = 1
    /\ nextId = 2
    /\ pdl_op_to_op = EmptyTable
    /\ preconditions = <<>>
    /\ erased = {}
    /\ status = "running"

VerifyOk ==
    /\ Visiting
    /\ Cur.name = "smt.bv.constant"
    /\ BitVectorValue_verify(Cur.val, Cur.ty.w) = ""
    /\ status' = "verified"
    /\ UNCHANGED <<input, block, idx, nextId, pdl_op_to_op, preconditions, erased>>

VerifyFail ==
    /\ Visiting
    /\ Cur.name = "smt.bv.constant"
    /\ BitVectorValue_verify(Cur.val, Cur.ty.w) # ""
    /\ status' = BitVectorValue_verify(Cur.val, Cur.ty.w)
    /\ UNCHANGED <<input, block, idx, nextId, pdl_op_to_op, preconditions, erased>>

NextVerify == VerifyOk \/ VerifyFail

SpecVerify == InitVerify /\ [][NextVerify]_vars

-----------------------------------------------------------------------------
(* Verification of an smt.bv operation: the block holds one operation      *)
(* whose operand and result types are checked against the declarations of  *)
(* its class and then by verify_.                                          *)

UnaryBVNames == {"smt.bv.neg", "smt.bv.not"}

BinaryBVNames ==
    {"smt.bv.add", "smt.bv.sub", "smt.bv.mul", "smt.bv.urem", "smt.bv.srem",
     "smt.bv.smod", "smt.bv.shl", "smt.bv.lshr", "smt.bv.ashr", "smt.bv.udiv",
     "smt.bv.sdiv", "smt.bv.or", "smt.bv.xor", "smt.bv.and", "smt.bv.nand",
     "smt.bv.nor", "smt.bv.xnor"}

BinaryPredBVNames ==
    {"smt.bv.ule", "smt.bv.ult", "smt.bv.uge", "smt.bv.ugt", "smt.bv.sle",
     "smt.bv.slt", "smt.bv.sge", "smt.bv.sgt"}

\* res: Annotated[OpResult, BitVectorType]; arg: Annotated[Operand, BitVectorType]
UnaryBVOp_constraints(op) ==
    /\ Len(op.operands) = 1 /\ Len(op.rtypes) = 1
    /\ isBitVectorType(op.rtypes[1])
    /\ isBitVectorType(op.operands[1].type)

UnaryBVOp_verify_(op) ==
    IF ~(op.rtypes[1] = op.operands[1].type) THEN "ValueError" ELSE ""

\* res, lhs, rhs: each annotated with BitVectorType
BinaryBVOp_constraints(op) ==
    /\ Len(op.operands) = 2 /\ Len(op.rtypes) = 1
    /\ isBitVectorType(op.rtypes[1])
    /\ isBitVectorType(op.operands[1].type)
    /\ isBitVectorType(op.operands[2].type)

\* A verify_ that compares the two operands and forgets the result.
BinaryBVOp_verify_noRes(op) ==
    IF ~(op.operands[1].type = op.operands[2].type) THEN "ValueError" ELSE ""

\* self.res.typ == self.lhs.typ == self.rhs.typ (a chained comparison)
BinaryBVOp_verify_(op) ==
    IF ~(op.rtypes[1] = op.operands[1].type
            /\ op.operands[1].type = op.operands[2].type)
    THEN "ValueError" ELSE ""

\* res: Annotated[OpResult, BoolType]; lhs, rhs annotated with BitVectorType
BinaryPredBVOp_constraints(op) ==
    /\ Len(op.operands) = 2 /\ Len(op.rtypes) = 1
    /\ op.rtypes[1] = BoolType
    /\ isBitVectorType(op.operands[1].type)
    /\ isBitVectorType(op.operands[2].type)

BinaryPredBVOp_verify_(op) ==
    IF ~(op.operands[1].type = op.operands[2].type) THEN "ValueError" ELSE ""

\* Operation.verify of an smt.bv operation: the declared constraints first
\* (VerifyException), then the verify_ of the class.
Op_verify(op) ==
    CASE op.name \in UnaryBVNames ->
            IF ~UnaryBVOp_constraints(op) THEN "VerifyException"
            ELSE UnaryBVOp_verify_(op)
      [] op.name \in BinaryBVNames ->
            IF ~BinaryBVOp_constraints(op) THEN "VerifyException"
            ELSE BinaryBVOp_verify_(op)
      [] op.name \in BinaryPredBVNames ->
            IF ~BinaryPredBVOp_constraints(op) THEN "VerifyException"
            ELSE BinaryPredBVOp_verify_(op)

\* The types an operand or a result of the verified operation may have.
VerifyTypes == {BitVectorType(w) : w \in 1..MaxWidth} \cup {BoolType, IntegerType(1)}

VerifyArg(i, t) == [op |-> i, idx |-> 1, type |-> t]

InitVerifyOp ==
    /\ \E r, a, b \in VerifyTypes :
          \/ \E nm \in UnaryBVNames : input = <<MkOp(3, nm, <<VerifyArg(1, a)>>, <<r>>)>>
          \/ \E nm \in BinaryBVNames \cup BinaryPredBVNames :
                input = <<MkOp(3, nm, <<VerifyArg(1, a), VerifyArg(2, b)>>, <<r>>)>>
    /\ block = input
    /\ idx = 1
    /\ nextId = 4
    /\ pdl_op_to_op = EmptyTable
    /\ preconditions = <<>>
    /\ erased = {}
    /\ status = "running"

VerifyOpOk ==
    /\ Visiting
    /\ Op_verify(Cur) = ""
    /\ status' = "verified"
    /\ UNCHANGED <<input, block, idx, nextId, pdl_op_to_op, preconditions, erased>>

VerifyOpFail ==
    /\ Visiting
    /\ Op_verify(Cur) # ""
    /\ status' = Op_verify(Cur)
    /\ UNCHANGED <<input, block, idx, nextId, pdl_op_to_op, preconditions, erased>>

NextVerifyOp == VerifyOpOk \/ VerifyOpFail

SpecVerifyOp == InitVerifyOp /\ [][NextVerifyOp]_vars

-----------------------------------------------------------------------------
(* Inputs of lower-effects-with-memory: a function whose block takes a     *)
(* state, a pointer, a 64-bit bit-vector and a W-bit value, followed by    *)
(* its body in pre-order: effect operations threaded through the state,    *)
(* and the return of the last state.                                       *)

MaxEffOps == 2

EffNames == {"ub_effect.trigger", "ub_effect.to_bool", "mem_effect.alloc",
             "mem_effect.offset_ptr", "mem_effect.read", "mem_effect.write", "test.op"}

LaterEffNames == {"ub_effect.trigger", "mem_effect.alloc", "mem_effect.read", "test.op"}

RECURSIVE LaterEffSeqs(_)
LaterEffSeqs(n) ==
    IF n = 0 THEN {<<>>}
    ELSE {<<>>} \cup {<<c>> \o t : c \in LaterEffNames, t \in LaterEffSeqs(n - 1)}

EffPrograms == {<<c>> \o t : c \in EffNames, t \in LaterEffSeqs(MaxEffOps - 1)}

\* Attributes put on the function and on test.op: nothing, nested
\* parametrized and array attributes, an opaque dictionary.
EffAttrs ==
    { <<>>,
      << ArrayAttr(<< Parametrized("test.wrap", <<PointerType, IntegerType(1)>>),
                      ArrayAttr(<<StateType>>) >>) >>,
      << DictionaryAttr(<<StateType>>), Parametrized("test.wrap", <<StateType>>) >> }

EffFunc(W, attrs) ==
    LET inputs == <<StateType, PointerType, BitVectorType(64), BitVectorType(W)>>
    IN [MkOp(1, "func.func", <<>>, <<>>)
           EXCEPT !.args = inputs, !.attrs = attrs,
                  !.props = <<FunctionType(inputs, <<StateType>>)>>]

\* The body built so far, with the current state and pointer values.
RECURSIVE EffBody(_, _, _, _, _, _)
EffBody(names, W, attrs, acc, state, pointer) ==
    IF names = <<>>
    THEN Append(acc, MkOp(Len(acc) + 1, "func.return", <<state>>, <<>>))
    ELSE LET id == Len(acc) + 1
             f == BlockArgs(acc[1])
             nm == names[1]
             op == CASE nm = "ub_effect.trigger" -> MkOp(id, nm, <<state>>, <<StateType>>)
                     [] nm = "ub_effect.to_bool" -> MkOp(id, nm, <<state>>, <<BoolType>>)
                     [] nm = "mem_effect.alloc" ->
                            MkOp(id, nm, <<state, f[3]>>, <<StateType, PointerType>>)
                     [] nm = "mem_effect.offset_ptr" ->
                            MkOp(id, nm, <<pointer, f[3]>>, <<PointerType>>)
                     [] nm = "mem_effect.read" ->
                            MkOp(id, nm, <<state, pointer>>, <<StateType, BitVectorType(W)>>)
                     [] nm = "mem_effect.write" ->
                            MkOp(id, nm, <<f[4], state, pointer>>, <<StateType>>)
                     [] nm = "test.op" ->
                            [MkOp(id, nm, <<state, pointer>>, <<StateType>>)
                                EXCEPT !.attrs = attrs]
             state1 == IF nm \in {"ub_effect.to_bool", "mem_effect.offset_ptr"}
                       THEN state ELSE Result(op, 1)
             pointer1 == IF nm = "mem_effect.alloc" THEN Result(op, 2)
                         ELSE IF nm = "mem_effect.offset_ptr" THEN Result(op, 1)
                         ELSE pointer
         IN EffBody(Tail(names), W, attrs, Append(acc, op), state1, pointer1)

EffModule(names, W, attrs) ==
    LET func == EffFunc(W, attrs)
    IN EffBody(names, W, attrs, <<func>>, BlockArgs(func)[1], BlockArgs(func)[2])

InitEff ==
    /\ \E names \in EffPrograms, W \in 1..MaxWidth, attrs \in EffAttrs :
           input = EffModule(names, W, attrs)
    /\ block = input
    /\ idx = 1
    /\ nextId = Len(input) + 1
    /\ pdl_op_to_op = EmptyTable
    /\ preconditions = <<>>
    /\ erased = {}
    /\ status = "running"

-----------------------------------------------------------------------------
(* lower-effects-with-memory as a walk: one action per pattern.            *)

EffOutcome == GreedyApplyEffects(1, block, idx, nextId)

\* A walker that moves past the matched op after a rewrite.
EffStep_noRevisit(r, kind) ==
    /\ r.pattern # 0
    /\ lower_effects_patterns[r.pattern].kind = kind
    /\ block' = r.ops
    /\ nextId' = r.nextId
    /\ idx' = idx + Len(r.ops) - Len(block) + 1
    /\ UNCHANGED <<input, pdl_op_to_op, preconditions, erased, status>>

\* The walker's step when the applier's outcome r is a rewrite by the pattern
\* of this kind: the walker stays at its position.
EffStep(r, kind) ==
    /\ r.pattern # 0
    /\ lower_effects_patterns[r.pattern].kind = kind
    /\ block' = r.ops
    /\ nextId' = r.nextId
    /\ UNCHANGED <<input, idx, pdl_op_to_op, preconditions, erased, status>>

EffRewrite(kind) == Visiting /\ EffStep(EffOutcome, kind)

EffTrigger == EffRewrite("trigger")

EffToBool == EffRewrite("to_bool")

EffGeneric == EffRewrite("generic")

EffAlloc == EffRewrite("alloc")

EffPointerOffset == EffRewrite("offset")

EffRead == EffRewrite("read")

EffWrite == EffRewrite("write")

\* No pattern acts on the visited op: the walker moves on.
EffSkip ==
    /\ Visiting
    /\ EffOutcome.pattern = 0
    /\ idx' = idx + 1
    /\ UNCHANGED <<input, block, nextId, pdl_op_to_op, preconditions, erased, status>>

NextEff ==
    \/ EffTrigger
    \/ EffToBool
    \/ EffGeneric
    \/ EffAlloc
    \/ EffPointerOffset
    \/ EffRead
    \/ EffWrite
    \/ EffSkip
    \/ WalkEnd

SpecEff == InitEff /\ [][NextEff]_vars

\* ENABLED <<NextEff>>_vars as a state predicate: the walk is not over, and
\* the step at the visited op changes the state (a pattern that acts without
\* changing anything would make the walker visit the same op forever).
NextEffEnabled ==
    /\ status = "running"
    /\ Visiting => \/ EffOutcome.pattern = 0
                   \/ EffOutcome.ops # block
                   \/ EffOutcome.nextId # nextId

\* The pass as a program that keeps running: rewrite_module is one loop that
\* takes the walker's next step as long as there is one.  The fairness is
\* WF_vars(NextEff) with its ENABLED written as NextEffEnabled.
SpecEffLive ==
    /\ InitEff
    /\ [][NextEff]_vars
    /\ ([]<>(~NextEffEnabled) \/ []<><<NextEff>>_vars)

-----------------------------------------------------------------------------
(* xdsl-tv (xdsl_tv.py).  The input is the pair of modules LowerToSMT has  *)
(* returned and the -opt flag; block is the new module main builds.        *)

DefineFunOp(id, arg_types, value, width) ==
    [MkOp(id, "smt.define_fun", <<>>,
          <<FunctionType(arg_types, <<BitVectorType(width)>>)>>)
        EXCEPT !.args = arg_types,
               !.body = << ConstantOp(id + 1, value, width),
                           MkOp(id + 2, "smt.return",
                                <<Result(ConstantOp(id + 1, value, width), 1)>>, <<>>) >>]

\* CallOp.get(func, args): the result has the function's return type.
CallOp_get(id, func, args) ==
    MkOp(id, "smt.call", <<func>> \o args, <<func.type.params[2].data[1]>>)

\* A lowered module: its first op is a define_fun or not, it holds one or
\* two ops, and its function takes nargs arguments.
TVModules(id) ==
    { (IF first = "smt.define_fun"
       THEN <<DefineFunOp(id, [j \in 1..nargs |-> BitVectorType(w)], v, w)>>
       ELSE <<DeclareConstOp(id, BitVectorType(w))>>)
      \o (IF len = 2 THEN <<DefineFunOp(id + 3, <<>>, v, w)>> ELSE <<>>) :
        first \in {"smt.define_fun", "smt.declare_const"}, len \in 1..2,
        nargs \in 0..1, v \in 0..1, w \in 1..MaxWidth }

InitTV ==
    /\ \E m \in TVModules(1), m_after \in TVModules(11), opt \in BOOLEAN :
           input = [module |-> m, module_after |-> m_after, opt |-> opt]
    /\ block = <<>>
    /\ idx = 1
    /\ nextId = 21
    /\ pdl_op_to_op = EmptyTable
    /\ preconditions = <<>>
    /\ erased = {}
    /\ status = "lowered"

has_single_func ==
    ~ \/ Len(input.module) # Len(input.module_after)
      \/ input.module[1].name # "smt.define_fun"
      \/ input.module_after[1].name # "smt.define_fun"

\* function_refinement once the argument check has passed.
function_refinement(func, func_after, id0) ==
    LET func_call == CallOp_get(id0, Result(func, 1), <<>>)
        func_call_after == CallOp_get(id0 + 1, Result(func_after, 1), <<>>)
        refinement_op == CoreBinOp(id0 + 2, "smt.eq", Result(func_call, 1),
                                   Result(func_call_after, 1))
    IN <<func_call, func_call_after, refinement_op,
         AssertOp(id0 + 3, Result(refinement_op, 1))>>

\* main, lines 120-126: the input is not a single function on each side.
TVRejectInput ==
    /\ status = "lowered"
    /\ ~has_single_func
    /\ status' = "exit 1"
    /\ UNCHANGED <<input, block, idx, nextId, pdl_op_to_op, preconditions, erased>>

\* main, lines 128-137: both functions are moved into the new module.
TVCombine ==
    /\ status = "lowered"
    /\ has_single_func
    /\ block' = <<input.module[1], input.module_after[1]>>
    /\ status' = "combined"
    /\ UNCHANGED <<input, idx, nextId, pdl_op_to_op, preconditions, erased>>

\* function_refinement, lines 53-55.
TVRejectArguments ==
    /\ status = "combined"
    /\ Len(block[1].args) # 0 \/ Len(block[2].args) # 0
    /\ status' = "exit 1"
    /\ UNCHANGED <<input, block, idx, nextId, pdl_op_to_op, preconditions, erased>>

\* main, line 140: the refinement operations are appended.
TVRefinement ==
    /\ status = "combined"
    /\ Len(block[1].args) = 0 /\ Len(block[2].args) = 0
    /\ block' = block \o function_refinement(block[1], block[2], nextId)
    /\ nextId' = nextId + 4
    /\ status' = "refined"
    /\ UNCHANGED <<input, idx, pdl_op_to_op, preconditions, erased>>

\* main, lines 142-144: LowerPairs and CanonicalizeSMT find no pair and no
\* foldable operation in these modules.
TVOptimise ==
    /\ status = "refined"
    /\ input.opt
    /\ status' = "optimised"
    /\ UNCHANGED <<input, block, idx, nextId, pdl_op_to_op, preconditions, erased>>

\* main, line 145: the new module is handed to print_to_smtlib.
TVPrint ==
    /\ \/ status = "refined" /\ ~input.opt
       \/ status = "optimised"
    /\ status' = "printed"
    /\ UNCHANGED <<input, block, idx, nextId, pdl_op_to_op, preconditions, erased>>

NextTV ==
    \/ TVRejectInput
    \/ TVCombine
    \/ TVRejectArguments
    \/ TVRefinement
    \/ TVOptimise
    \/ TVPrint

SpecTV == InitTV /\ [][NextTV]_vars

-----------------------------------------------------------------------------
(* The three passes side by side: the pass that runs is the one the input  *)
(* module was built for.                                                   *)

PassOf(module) ==
    CASE module[1].name = "pdl.pattern" -> "pdl-to-smt"
      [] module[1].name = "func.func" -> "lower-effects-with-memory"
      [] OTHER -> "comb-to-smt"

InitPasses == InitComb \/ InitPDL \/ InitEff

\* The walk of the pass the module was given to.  A pattern of one pass acts
\* on no op of the modules of the other passes; the walker's step past an op
\* is the step of the pass at work.
NextPasses ==
    \/ CombVariadic
    \/ CombTrivialBinOp
    \/ CombNotImplemented
    \/ CombConcat
    \/ CombMux
    \/ PassOf(input) = "comb-to-smt" /\ CombSkip
    \/ PatternRewrite
    \/ RewriteRewrite
    \/ DataflowRewriteRewrite
    \/ TypeRewrite
    \/ AttributeRewrite
    \/ OperandRewrite
    \/ GetOpRewrite
    \/ OperationRewrite
    \/ ReplaceRewrite
    \/ ResultRewrite
    \/ AttachOpRewrite
    \/ TrivialPattern
    \/ PassOf(input) = "pdl-to-smt" /\ PDLSkip
    \/ EffTrigger
    \/ EffToBool
    \/ EffGeneric
    \/ EffAlloc
    \/ EffPointerOffset
    \/ EffRead
    \/ EffWrite
    \/ PassOf(input) = "lower-effects-with-memory" /\ EffSkip
    \/ WalkEnd

SpecPasses == InitPasses /\ [][NextPasses]_vars

-----------------------------------------------------------------------------
(* check_bounds on concrete values.  A 64-bit bit-vector is four 16-bit    *)
(* limbs, least significant first; the input gives the offset and the size *)
(* of the block, the block holds what check_bounds emits before an access. *)

LimbBase == 65536

Sample64 ==
    { <<0, 0, 0, 0>>, <<1, 0, 0, 0>>, <<2, 0, 0, 0>>, <<4, 0, 0, 0>>,
      <<65535, 0, 0, 0>>, <<0, 1, 0, 0>>, <<65535, 65535, 0, 0>>, <<0, 0, 1, 0>>,
      <<65535, 65535, 65535, 32767>>, <<0, 0, 0, 32768>>,
      <<65534, 65535, 65535, 65535>>, <<65535, 65535, 65535, 65535>> }

\* bvadd on 64 bits: limb-wise addition with carry, the last carry dropped.
RECURSIVE bvadd(_, _, _, _)
bvadd(a, b, k, carry) ==
    IF k > Len(a) THEN <<>>
    ELSE <<(a[k] + b[k] + carry) % LimbBase>>
            \o bvadd(a, b, k + 1, (a[k] + b[k] + carry) \div LimbBase)

\* bvule: unsigned comparison, most significant limb first.
RECURSIVE bvule(_, _, _)
bvule(a, b, k) ==
    IF k = 0 THEN TRUE
    ELSE IF a[k] # b[k] THEN a[k] < b[k]
    ELSE bvule(a, b, k - 1)

\* The value of v in a block whose declared constant is the offset and whose
\* block has the given size.
RECURSIVE EvalValue(_, _, _)
EvalValue(ops, v, env) ==
    LET o == ops[CHOOSE i \in 1..Len(ops) : ops[i].id = v.op]
    IN CASE o.name = "smt.declare_const" -> env.offset
         [] o.name = "memory.get_block_size" -> env.size
         [] o.name = "smt.bv.add" ->
                bvadd(EvalValue(ops, o.operands[1], env),
                      EvalValue(ops, o.operands[2], env), 1, 0)
         [] o.name = "smt.bv.ule" ->
                bvule(EvalValue(ops, o.operands[1], env),
                      EvalValue(ops, o.operands[2], env), 4)

\* offset, the block, and the access whose bounds are checked.
BoundsBlock ==
    LET offset == DeclareConstOp(1, BitVectorType(64))
        blk == GetBlockOp(2, [op |-> 0, idx |-> 1, type |-> MemoryType],
                          [op |-> 0, idx |-> 2, type |-> BlockIDType])
    IN << offset, blk,
          MkOp(3, "memory.read_bytes", <<Result(blk, 1), Result(offset, 1)>>,
               <<BitVectorType(8)>>) >>

InitBounds ==
    /\ \E offset \in Sample64, size \in Sample64 :
           input = [offset |-> offset, size |-> size]
    /\ block = BoundsBlock
    /\ idx = 3
    /\ nextId = 4
    /\ pdl_op_to_op = EmptyTable
    /\ preconditions = <<>>
    /\ erased = {}
    /\ status = "running"

\* check_bounds(offset, block, rewriter)
CheckBounds ==
    /\ status = "running"
    /\ LET r == check_bounds(Result(block[1], 1), Result(block[2], 1), nextId)
       IN /\ block' = insert_op_before_matched_op(Rewriter(block, idx), r.ops).ops
          /\ idx' = idx + Len(r.ops)
          /\ nextId' = nextId + Len(r.ops)
          /\ preconditions' = <<r.res>>
    /\ status' = "emitted"
    /\ UNCHANGED <<input, pdl_op_to_op, erased>>

\* The value offset_in_bounds takes for the offset and the size of the input.
EvalBounds ==
    /\ status = "emitted"
    /\ status' = IF EvalValue(block, preconditions[1], input) THEN "in_bounds"
                 ELSE "out_of_bounds"
    /\ UNCHANGED <<input, block, idx, nextId, pdl_op_to_op, preconditions, erased>>

NextBounds == CheckBounds \/ EvalBounds

SpecBounds == InitBounds /\ [][NextBounds]_vars

-----------------------------------------------------------------------------
(* Vocabulary of the properties.                                           *)

HasOp(ops, id) == \E i \in 1..Len(ops) : ops[i].id = id

OpById(ops, id) == ops[CHOOSE i \in 1..Len(ops) : ops[i].id = id]

\* The operation that defines a value, in a flat block.
Def(ops, v) == OpById(ops, v.op)

CountName(ops, name) == Cardinality({i \in 1..Len(ops) : ops[i].name = name})

\* All operations of a block, nested ones included, in pre-order.
RECURSIVE FlatOps(_)
FlatOps(ops) ==
    IF Len(ops) = 0 THEN <<>>
    ELSE <<ops[1]>> \o FlatOps(ops[1].body) \o FlatOps(Tail(ops))

\* Operations of the next block that the step created.
Created == {i \in 1..Len(block') : block'[i].id >= nextId}

CreatedNamed(name) == {i \in Created : block'[i].name = name}

\* The conjuncts of a value: an smt.and that is not itself one of the given
\* atoms is split into the conjuncts of its two operands, left to right.
RECURSIVE Leaves(_, _, _)
Leaves(ops, v, atoms) ==
    IF v \in atoms \/ ~HasOp(ops, v.op) THEN <<v>>
    ELSE IF Def(ops, v).name = "smt.and"
    THEN Leaves(ops, Def(ops, v).operands[1], atoms)
            \o Leaves(ops, Def(ops, v).operands[2], atoms)
    ELSE <<v>>

SeqRange(s) == {s[i] : i \in 1..Len(s)}

Occurrences(s, v) == Cardinality({i \in 1..Len(s) : s[i] = v})

SameBag(s, t) ==
    /\ Len(s) = Len(t)
    /\ \A v \in SeqRange(s) \cup SeqRange(t) : Occurrences(s, v) = Occurrences(t, v)

RemoveAt(s, i) == SubSeq(s, 1, i - 1) \o SubSeq(s, i + 1, Len(s))

\* v is distinct(a, b), in either operand order.
IsDistinct(ops, v, a, b) ==
    /\ HasOp(ops, v.op)
    /\ Def(ops, v).name = "smt.distinct"
    /\ Def(ops, v).operands \in {<<a, b>>, <<b, a>>}

\* v is (value AND zeros) = 0 /\ (value AND ones) = ones.
IsKnownBits(ops, v, value, zeros, ones) ==
    /\ HasOp(ops, v.op) /\ Def(ops, v).name = "smt.and"
    /\ LET l == Def(ops, v).operands[1]
           r == Def(ops, v).operands[2]
       IN /\ HasOp(ops, l.op) /\ Def(ops, l).name = "smt.eq"
          /\ HasOp(ops, r.op) /\ Def(ops, r).name = "smt.eq"
          /\ LET la == Def(ops, l).operands[1]
                 lz == Def(ops, l).operands[2]
                 ra == Def(ops, r).operands[1]
             IN /\ HasOp(ops, la.op) /\ Def(ops, la).name = "smt.bv.and"
                /\ Def(ops, la).operands = <<value, zeros>>
                /\ HasOp(ops, lz.op) /\ Def(ops, lz).name = "smt.bv.constant"
                /\ Def(ops, lz).val = 0 /\ Def(ops, lz).ty = value.type
                /\ HasOp(ops, ra.op) /\ Def(ops, ra).name = "smt.bv.and"
                /\ Def(ops, ra).operands = <<value, ones>>
                /\ Def(ops, r).operands[2] = ones

\* v is NOT((value AND zeros) = 0 /\ (value AND ones) = ones).
IsNotKnownBits(ops, v, value, zeros, ones) ==
    /\ HasOp(ops, v.op) /\ Def(ops, v).name = "smt.not"
    /\ IsKnownBits(ops, Def(ops, v).operands[1], value, zeros, ones)

\* The one assert created by the step, when there is exactly one.
NewAssert == block'[CHOOSE i \in CreatedNamed("smt.assert") : TRUE]

OneNewAssert ==
    /\ Cardinality(CreatedNamed("smt.assert")) = 1
    /\ CountName(block', "smt.assert") = CountName(block, "smt.assert") + 1

-----------------------------------------------------------------------------
(* Properties of pdl-to-smt.                                               *)

ReplaceStep == Matches("pdl.replace") /\ status' = "running"

ReplacedResult == Result(pdl_op_to_op[Cur.operands[1]], 1)

ReplacingValue ==
    IF Len(repl_values(Cur)) # 0 THEN repl_values(Cur)[1]
    ELSE Result(pdl_op_to_op[repl_operation(Cur)[1]], 1)

\* C1: rewriting a pdl.replace of a single-result operation (lowered result a)
\* by a value b emits exactly one assert; its value is distinct(a, b) when the
\* precondition list is empty, and otherwise the conjunction of distinct(a, b)
\* with each of the k preconditions exactly once.
C1_ReplaceAssertsDistinctAndPreconditions ==
    [][ReplaceStep =>
          /\ OneNewAssert
          /\ LET leaves == Leaves(block', NewAssert.operands[1], SeqRange(preconditions))
             IN /\ Len(preconditions) = 0 =>
                      IsDistinct(block', NewAssert.operands[1], ReplacedResult,
                                 ReplacingValue)
                /\ \E d \in 1..Len(leaves) :
                      /\ IsDistinct(block', leaves[d], ReplacedResult, ReplacingValue)
                      /\ SameBag(RemoveAt(leaves, d), preconditions)]_vars

\* A replace has been rewritten under two preconditions: the block holds an
\* assert of an smt.and whose first operand is a distinct.
C1_Witness ==
    /\ Len(preconditions) >= 2
    /\ \E i \in 1..Len(block) :
          /\ block[i].name = "smt.assert"
          /\ Def(block, block[i].operands[1]).name = "smt.and"
          /\ Def(block, Def(block, block[i].operands[1]).operands[1]).name
                = "smt.distinct"

AttachStep == Matches("pdl.df.attach") /\ status' = "running"

GetStep == Matches("pdl.df.get") /\ status' = "running"

PatternStep == Matches("pdl.pattern")

Pos(ops, id) == CHOOSE i \in 1..Len(ops) : ops[i].id = id

\* Position of the last check_sat before position i, 0 when there is none.
LastCheckSat(ops, i) ==
    LET S == {j \in 1..(i - 1) : ops[j].name = "smt.check_sat"}
    IN IF S = {} THEN 0 ELSE CHOOSE j \in S : \A h \in S : h <= j

\* Position of the k-th check_sat of a block, 0 for k = 0.
CheckSatPos(ops, k) ==
    IF k = 0 THEN 0
    ELSE CHOOSE i \in 1..Len(ops) :
            /\ ops[i].name = "smt.check_sat"
            /\ Cardinality({j \in 1..i : ops[j].name = "smt.check_sat"}) = k

AssertsBetween(ops, lo, hi) ==
    Cardinality({i \in (lo + 1)..(hi - 1) : ops[i].name = "smt.assert"})

\* The preconditions among the conjuncts of the value asserted at position i,
\* in their order of occurrence.
AssertedPreconditions(ops, i) ==
    SelectSeq(Leaves(ops, ops[i].operands[1], SeqRange(preconditions)),
              LAMBDA v : v \in SeqRange(preconditions))

\* The preconditions produced between the check_sat of the previous pattern
\* and position i, that is by the gets of the pattern that position i is in.
PatternPreconditions(ops, i) ==
    SelectSeq(preconditions,
              LAMBDA p : /\ HasOp(ops, p.op)
                         /\ Pos(ops, p.op) > LastCheckSat(ops, i)
                         /\ Pos(ops, p.op) < i)

\* C2: the precondition list is per pattern: the value asserted for a
\* pdl.replace or pdl.df.attach of a pattern conjoins exactly the preconditions
\* produced by the pdl.df.get ops of that pattern, in their order, and none
\* produced by a get of another pattern.
C2_PreconditionsArePerPattern ==
    \A i \in 1..Len(block) :
        block[i].name = "smt.assert" =>
            AssertedPreconditions(block, i) = PatternPreconditions(block, i)

\* C3: rewriting pdl.df.attach(v, zeros, ones) emits exactly one assert whose
\* value is p1 /\ ... /\ pk /\ NOT((v AND zeros) = 0 /\ (v AND ones) = ones) for
\* the k preconditions accumulated so far (the NOT alone when k = 0), and the
\* attach op is removed.
C3_AttachAssertsAnalysisIncorrect ==
    [][AttachStep =>
          /\ OneNewAssert
          /\ ~HasOp(FlatOps(block'), Cur.id)
          /\ LET leaves == Leaves(block', NewAssert.operands[1], SeqRange(preconditions))
             IN /\ Len(leaves) = Len(preconditions) + 1
                /\ SubSeq(leaves, 1, Len(preconditions)) = preconditions
                /\ IsNotKnownBits(block', leaves[Len(leaves)], Cur.operands[1],
                                  Cur.operands[2], Cur.operands[3])]_vars

\* An attach has been rewritten under two preconditions: the block holds an
\* assert of an smt.and whose second operand is an smt.not.
C3_Witness ==
    /\ Len(preconditions) >= 2
    /\ \E i \in 1..Len(block) :
          /\ block[i].name = "smt.assert"
          /\ Def(block, block[i].operands[1]).name = "smt.and"
          /\ Def(block, Def(block, block[i].operands[1]).operands[2]).name = "smt.not"

\* The operands of the ops of a block, nested ones included, one sequence per op.
OperandsOf(ops) == [i \in 1..Len(FlatOps(ops)) |-> FlatOps(ops)[i].operands]

\* C4: rewriting pdl.df.get(v) for v of type BitVec(w) introduces two new
\* declare_const ops of type BitVec(w) whose values are fresh, appends exactly
\* one precondition (v AND zeros) = 0 /\ (v AND ones) = ones at the end of the
\* precondition list, and rewires every use of the first result of the get to
\* zeros and every use of the second to ones.
C4_GetDeclaresDomainAndPrecondition ==
    [][GetStep =>
          /\ Cardinality(CreatedNamed("smt.declare_const")) = 2
          /\ CountName(block', "smt.declare_const")
                = CountName(block, "smt.declare_const") + 2
          /\ Len(preconditions') = Len(preconditions) + 1
          /\ SubSeq(preconditions', 1, Len(preconditions)) = preconditions
          /\ \E zi, oi \in CreatedNamed("smt.declare_const") :
                LET zeros == Result(block'[zi], 1)
                    ones == Result(block'[oi], 1)
                    before == OperandsOf(SubSeq(block, idx + 1, Len(block)))
                    after == OperandsOf(SubSeq(block', Len(block') - Len(block) + idx + 1,
                                               Len(block')))
                IN /\ zi # oi
                   /\ block'[zi].rtypes = <<Cur.operands[1].type>>
                   /\ block'[oi].rtypes = <<Cur.operands[1].type>>
                   /\ \A o \in SeqRange(FlatOps(block)) :
                         o.id \notin {block'[zi].id, block'[oi].id}
                   /\ IsKnownBits(block', preconditions'[Len(preconditions')],
                                  Cur.operands[1], zeros, ones)
                   /\ Len(after) = Len(before)
                   /\ \A n \in 1..Len(before) :
                         /\ Len(after[n]) = Len(before[n])
                         /\ \A j \in 1..Len(before[n]) :
                               after[n][j] =
                                  IF before[n][j] = Result(Cur, 1) THEN zeros
                                  ELSE IF before[n][j] = Result(Cur, 2) THEN ones
                                  ELSE before[n][j]]_vars

\* A get has been rewritten and its results were in use: a pdl.df.attach still
\* to be rewritten takes two different declare_const values as its domain.
C4_Witness ==
    /\ Len(preconditions) >= 1
    /\ \E n \in 1..Len(FlatOps(block)) :
          LET o == FlatOps(block)[n]
          IN /\ o.name = "pdl.df.attach"
             /\ o.operands[2] # o.operands[3]
             /\ HasOp(block, o.operands[2].op)
             /\ HasOp(block, o.operands[3].op)
             /\ Def(block, o.operands[2]).name = "smt.declare_const"
             /\ Def(block, o.operands[3]).name = "smt.declare_const"
             /\ o.operands[2].op < o.operands[3].op

\* Number of asserts the rewrite of a pattern emits: one per pdl.replace and
\* one per pdl.df.attach of its body.
Emits(p) ==
    CountName(FlatOps(p.body), "pdl.replace") + CountName(FlatOps(p.body), "pdl.df.attach")

\* C5: rewriting a pdl.pattern puts its body at the pattern's position, one new
\* check_sat right after the body, and erases the pattern op; when pdl-to-smt
\* returns there are as many check_sat ops as the input had pdl.pattern ops, and
\* the asserts of the k-th pattern lie between the (k-1)-th and the k-th
\* check_sat.
C5_OneCheckSatPerPattern ==
    /\ [][PatternStep =>
            /\ Len(block') = Len(block) + Len(Cur.body)
            /\ SubSeq(block', 1, idx - 1) = SubSeq(block, 1, idx - 1)
            /\ SubSeq(block', idx, idx + Len(Cur.body) - 1) = Cur.body
            /\ block'[idx + Len(Cur.body)].name = "smt.check_sat"
            /\ ~HasOp(FlatOps(block), block'[idx + Len(Cur.body)].id)
            /\ SubSeq(block', idx + Len(Cur.body) + 1, Len(block'))
                  = SubSeq(block, idx + 1, Len(block))
            /\ CountName(block', "smt.check_sat") = CountName(block, "smt.check_sat") + 1
            /\ ~HasOp(FlatOps(block'), Cur.id)]_vars
    /\ [](status = "done" =>
            /\ CountName(block, "smt.check_sat") = CountName(input, "pdl.pattern")
            /\ \A k \in 1..Len(input) :
                  AssertsBetween(block, CheckSatPos(block, k - 1), CheckSatPos(block, k))
                     = Emits(input[k])
            /\ AssertsBetween(block, CheckSatPos(block, Len(input)), Len(block) + 1) = 0)

\* pdl-to-smt has returned on a module of two patterns, each with its assert.
C5_Witness ==
    /\ status = "done"
    /\ Len(input) >= 2
    /\ CountName(block, "smt.assert") >= 2
    /\ CountName(block, "smt.check_sat") >= 2

-----------------------------------------------------------------------------
(* Properties of comb-to-smt.                                              *)

VariadicStep(n) ==
    Visiting /\ Cur.name \in VariadicNames /\ Len(Cur.operands) = n

BinStep == Visiting /\ Cur.name \in BinNames

NotImplStep == Visiting /\ Cur.name \in NotImplNames

\* The smt.bv operation a comb operation is lowered to.
SmtOpOf(name) ==
    CASE name = "comb.add" -> "smt.bv.add"
      [] name = "comb.mul" -> "smt.bv.mul"
      [] name = "comb.and" -> "smt.bv.and"
      [] name = "comb.or" -> "smt.bv.or"
      [] name = "comb.xor" -> "smt.bv.xor"
      [] name = "comb.divu" -> "smt.bv.udiv"
      [] name = "comb.divs" -> "smt.bv.sdiv"
      [] name = "comb.modu" -> "smt.bv.urem"
      [] name = "comb.mods" -> "smt.bv.srem"
      [] name = "comb.shl" -> "smt.bv.shl"
      [] name = "comb.shru" -> "smt.bv.lshr"
      [] name = "comb.shrs" -> "smt.bv.ashr"
      [] name = "comb.sub" -> "smt.bv.sub"

\* The value a variadic operation without operands stands for.
IdentityOf(name) == IF name \in {"comb.mul", "comb.and"} THEN 1 ELSE 0

\* v is the left fold op(...op(op(x1, x2), x3)..., xk) of the first k operands,
\* built from operations the step created.
RECURSIVE IsLeftFold(_, _, _, _, _)
IsLeftFold(ops, v, name, operands, k) ==
    IF k = 1 THEN v = operands[1]
    ELSE /\ HasOp(ops, v.op)
         /\ v.op >= nextId
         /\ Def(ops, v).name = name
         /\ Len(Def(ops, v).operands) = 2
         /\ Def(ops, v).operands[2] = operands[k]
         /\ IsLeftFold(ops, Def(ops, v).operands[1], name, operands, k - 1)

\* The matched operation is gone, added new operations have taken its place,
\* and every use of its result after it now reads new_value.
ReplacedBy(added, new_value) ==
    /\ status' = "running"
    /\ Cardinality(Created) = added
    /\ Len(block') = Len(block) + added - 1
    /\ ~HasOp(block', Cur.id)
    /\ SubSeq(block', 1, idx - 1) = SubSeq(block, 1, idx - 1)
    /\ \A j \in (idx + 1)..Len(block) :
          LET old == block[j]
              new == block'[j + added - 1]
          IN /\ new.id = old.id /\ new.name = old.name /\ new.rtypes = old.rtypes
             /\ Len(new.operands) = Len(old.operands)
             /\ \A h \in 1..Len(old.operands) :
                   new.operands[h] = IF old.operands[h] = Result(Cur, 1) THEN new_value
                                     ELSE old.operands[h]

\* C6: lowering a variadic comb op with n >= 2 operands x1..xn produces exactly
\* n - 1 binary smt.bv ops forming the left fold op(...op(op(x1, x2), x3)..., xn)
\* and rewires every use of the comb op's result to the outermost op.
C6_VariadicLeftFold ==
    [][\A n \in 2..MaxArity :
          VariadicStep(n) =>
              /\ status' = "running"
              /\ \E i \in Created :
                    /\ IsLeftFold(block', Result(block'[i], 1), SmtOpOf(Cur.name),
                                  Cur.operands, n)
                    /\ ReplacedBy(n - 1, Result(block'[i], 1))]_vars

\* C7: a variadic comb op without operands and of result type iW is replaced by
\* one smt.bv.constant of width W whose value is 0 for add/or/xor and 1 for
\* mul/and; with exactly one operand it is replaced by that operand and no
\* operation is created.
C7_VariadicZeroOrOneOperand ==
    [][/\ VariadicStep(0) =>
            /\ status' = "running"
            /\ \E i \in Created :
                  /\ block'[i].name = "smt.bv.constant"
                  /\ block'[i].val = IdentityOf(Cur.name)
                  /\ block'[i].ty = BitVectorType(Cur.rtypes[1].w)
                  /\ block'[i].rtypes = <<BitVectorType(Cur.rtypes[1].w)>>
                  /\ ReplacedBy(1, Result(block'[i], 1))
       /\ VariadicStep(1) => ReplacedBy(0, Cur.operands[1])]_vars

\* C8: each comb binary op is replaced by exactly one smt.bv op with the same
\* operands in the same order and the lowered result type, under divu->udiv,
\* divs->sdiv, modu->urem, mods->srem, shl->shl, shru->lshr, shrs->ashr,
\* sub->sub; no other operation is inserted.
C8_BinaryOpMapping ==
    [][BinStep =>
          /\ status' = "running"
          /\ \E i \in Created :
                /\ block'[i].name = SmtOpOf(Cur.name)
                /\ block'[i].operands = Cur.operands
                /\ block'[i].rtypes = <<convert_type(Cur.rtypes[1])>>
                /\ ReplacedBy(1, Result(block'[i], 1))]_vars

\* C9: when comb-to-smt visits a comb.parity, comb.extract, comb.replicate or
\* comb.icmp op the pass ends with a NotImplementedError, the op is left as it
\* is, and neither it nor any op after it is rewritten.
C9_NotImplementedAborts ==
    /\ [][NotImplStep => status' = "NotImplementedError" /\ block' = block]_vars
    /\ [][status = "NotImplementedError" => block' = block /\ status' = status]_vars
    /\ [](status = "NotImplementedError" =>
            /\ idx <= Len(block)
            /\ block[idx].name \in NotImplNames
            /\ \A j \in idx..Len(block) :
                  \E o \in SeqRange(input) :
                      /\ o.id = block[j].id
                      /\ o.name = block[j].name
                      /\ o.rtypes = block[j].rtypes)

\* The pass has stopped on an unsupported op while an op it would have
\* rewritten is still waiting behind it.
C9_Witness ==
    /\ status = "NotImplementedError"
    /\ idx < Len(block)
    /\ block[idx + 1].name \in VariadicNames
    /\ Len(block[idx + 1].operands) = 1

-----------------------------------------------------------------------------
(* Properties of the verification of smt.bv.constant.                      *)

\* 2^w, counted as the number of subsets of a set of w elements.
TwoToThe(w) == Cardinality(SUBSET (1..w))

\* C10: the attribute <v : w> of smt.bv.constant verifies iff 0 <= v < 2^w, and
\* outside that range verification fails with the out-of-range ValueError.
C10_ValueInRangeIffVerifies ==
    status # "running" =>
        LET v == block[1].val
            w == block[1].ty.w
        IN /\ status = "verified" <=> (0 <= v /\ v < TwoToThe(w))
           /\ (v < 0 \/ v >= TwoToThe(w)) => status = "ValueError"

\* The smallest value out of range for its width has been refused.
C10_Witness ==
    /\ status = "ValueError"
    /\ block[1].ty.w >= 1
    /\ block[1].val = TwoToThe(block[1].ty.w)

-----------------------------------------------------------------------------
(* Properties of the verification of smt.bv operations.                    *)

SameBitVec(ts) ==
    \E w \in 1..(MaxWidth + 1) : \A i \in 1..Len(ts) : ts[i] = BitVectorType(w)

\* C11: a binary arithmetic/bitwise smt.bv op verifies only when its two
\* operand types and its result type are the same BitVec(w), a unary op only
\* when operand and result types are the same BitVec(w), a predicate only when
\* both operand types are the same BitVec(w) and its result is Bool; every
\* other combination is rejected.
C11_OperandAndResultTypesAgree ==
    (status # "running" /\ block[1].name \in UnaryBVNames \cup BinaryBVNames \cup BinaryPredBVNames) =>
        LET op == block[1]
            a == op.operands[1].type
            accepted ==
                CASE op.name \in UnaryBVNames -> SameBitVec(<<a, op.rtypes[1]>>)
                  [] op.name \in BinaryBVNames ->
                        SameBitVec(<<a, op.operands[2].type, op.rtypes[1]>>)
                  [] op.name \in BinaryPredBVNames ->
                        SameBitVec(<<a, op.operands[2].type>>) /\ op.rtypes[1] = BoolType
        IN /\ status = "verified" <=> accepted
           /\ ~accepted => status \in {"ValueError", "VerifyException"}

\* A binary op whose operands agree and whose result is a bit-vector of
\* another width has been refused by verify_.
C11_Witness ==
    /\ status = "ValueError"
    /\ block[1].name \in BinaryBVNames
    /\ block[1].operands[1].type = block[1].operands[2].type
    /\ block[1].rtypes[1] # block[1].operands[1].type

-----------------------------------------------------------------------------
(* lower-effects-with-memory.                                              *)

\* The step replaces the visited effect operation of one of the given names.
LoweringStep(names) == Visiting /\ Cur.name \in names /\ ~HasOp(block', Cur.id)

\* v is a result of an operation of that name which the step created.
Made(v, name) ==
    /\ HasOp(block', v.op) /\ v.op >= nextId
    /\ Def(block', v).name = name
    /\ v.idx \in 1..Len(Def(block', v).rtypes)
    /\ v = Result(Def(block', v), v.idx)

Arg(v, h) == Def(block', v).operands[h]

\* The operations before the visited one are untouched, and every use of
\* result r of the replaced operation now reads v.
UsesNow(r, v) ==
    /\ SubSeq(block', 1, idx - 1) = SubSeq(block, 1, idx - 1)
    /\ Len(block') = Len(block) + Cardinality(Created) - 1
    /\ \A j \in (idx + 1)..Len(block) :
          LET old == block[j]
              new == block'[j + Cardinality(Created) - 1]
          IN /\ new.id = old.id /\ new.name = old.name
             /\ Len(new.operands) = Len(old.operands)
             /\ \A h \in 1..Len(old.operands) :
                   new.operands[h] =
                       IF old.operands[h].op = Cur.id
                       THEN IF old.operands[h].idx = r THEN v ELSE new.operands[h]
                       ELSE old.operands[h]

\* The state a lowering returns: the result of the last operation it created.
NewState == Result(block'[idx + Cardinality(Created) - 1], 1)

\* C12: lowering mem_effect.read or mem_effect.write on a state s unwraps s
\* with first and second into (memory, ub) and returns pair(memory', ub OR c),
\* where c is ule(add(offset, size), size) for the offset second(pointer) and
\* the size of the block get_block(memory, first(pointer)); for a read memory'
\* is memory itself, for a write it is a set_block into memory at that id.
C12_ReadWriteStateIsPairOfMemoryAndUbOrBounds ==
    [][LoweringStep({"mem_effect.read", "mem_effect.write"}) =>
        LET state == NewState
            memory1 == Arg(state, 1)
            new_ub == Arg(state, 2)
            ub == Arg(new_ub, 1)
            c == Arg(new_ub, 2)
            offset_end == Arg(c, 1)
            size == Arg(c, 2)
            offset == Arg(offset_end, 1)
            blk == Arg(size, 1)
            memory == Arg(blk, 1)
            block_id == Arg(blk, 2)
        IN /\ Made(state, "smt.utils.pair") /\ state.type = new_state_type
           /\ UsesNow(1, state)
           /\ Made(new_ub, "smt.or")
           /\ Made(ub, "smt.utils.second") /\ Arg(ub, 1) = op_state(Cur)
           /\ Made(c, "smt.bv.ule")
           /\ Made(offset_end, "smt.bv.add") /\ Arg(offset_end, 2) = size
           /\ Made(size, "memory.get_block_size")
           /\ Made(offset, "smt.utils.second") /\ Arg(offset, 1) = op_pointer(Cur)
           /\ Made(blk, "memory.get_block")
           /\ Made(memory, "smt.utils.first") /\ Arg(memory, 1) = op_state(Cur)
           /\ Made(block_id, "smt.utils.first") /\ Arg(block_id, 1) = op_pointer(Cur)
           /\ Cur.name = "mem_effect.read" => memory1 = memory
           /\ Cur.name = "mem_effect.write" =>
                 /\ Made(memory1, "memory.set_block")
                 /\ Arg(memory1, 2) = memory /\ Arg(memory1, 3) = block_id
    ]_vars

\* A read has been lowered and the function returns the state it produced.
C12_Witness ==
    /\ status = "done"
    /\ input[2].name = "mem_effect.read" /\ Len(input) = 3
    /\ CountName(block, "mem_effect.read") = 0
    /\ CountName(block, "smt.or") = 1
    /\ LET ret == block[Len(block)]
       IN ret.name = "func.return" /\ ret.operands[1].type = new_state_type

\* attr is or contains, inside parametrized or array attributes, the state
\* type or the pointer type.
RECURSIVE Mentions(_)
Mentions(attr) ==
    \/ attr.k \in {"effect.state", "mem_effect.ptr"}
    \/ "params" \in DOMAIN attr /\ \E j \in 1..Len(attr.params) : Mentions(attr.params[j])
    \/ "data" \in DOMAIN attr /\ \E j \in 1..Len(attr.data) : Mentions(attr.data[j])

\* new is old with every state type replaced by Pair(Memory, Bool) and every
\* pointer type by Pair(BlockID, BitVec(64)), and nothing else changed.
RECURSIVE LoweredFrom(_, _)
LoweredFrom(new, old) ==
    IF old.k = "effect.state"
    THEN new = [k |-> "smt.utils.pair", w |-> 0,
                params |-> <<[k |-> "memory.memory", w |-> 0], [k |-> "smt.bool", w |-> 0]>>]
    ELSE IF old.k = "mem_effect.ptr"
    THEN new = [k |-> "smt.utils.pair", w |-> 0,
                params |-> <<[k |-> "memory.block_id", w |-> 0],
                             [k |-> "smt.bv.bv", w |-> 64]>>]
    ELSE IF "params" \in DOMAIN old
    THEN /\ DOMAIN new = DOMAIN old /\ new.k = old.k /\ new.w = old.w
         /\ Len(new.params) = Len(old.params)
         /\ \A j \in 1..Len(old.params) : LoweredFrom(new.params[j], old.params[j])
    ELSE IF "data" \in DOMAIN old
    THEN /\ DOMAIN new = DOMAIN old /\ new.k = old.k /\ new.w = old.w
         /\ Len(new.data) = Len(old.data)
         /\ \A j \in 1..Len(old.data) : LoweredFrom(new.data[j], old.data[j])
    ELSE new = old

AllLoweredFrom(news, olds) ==
    /\ Len(news) = Len(olds)
    /\ \A j \in 1..Len(olds) : LoweredFrom(news[j], olds[j])

\* C13: when lower-effects-with-memory has returned, no result type, block
\* argument type, attribute or property of any operation mentions the state
\* or the pointer type at any depth inside parametrized or array attributes;
\* on the operations it kept, each is the input's with State turned into
\* Pair(Memory, Bool) and Pointer into Pair(BlockID, BitVec(64)), and all
\* else unchanged.
C13_NoStateOrPointerTypeRemains ==
    (status = "done" /\ input[1].name = "func.func") =>
        /\ \A i \in 1..Len(block) :
              LET op == block[i]
              IN /\ \A a \in SeqRange(op.rtypes) \cup SeqRange(op.args)
                            \cup SeqRange(op.attrs) \cup SeqRange(op.props) : ~Mentions(a)
                 /\ \A v \in SeqRange(op.operands) : ~Mentions(v.type)
        /\ \A i \in 1..Len(input) :
              HasOp(block, input[i].id) =>
                  LET old == input[i]
                      new == OpById(block, old.id)
                  IN /\ AllLoweredFrom(new.rtypes, old.rtypes)
                     /\ AllLoweredFrom(new.args, old.args)
                     /\ AllLoweredFrom(new.attrs, old.attrs)
                     /\ AllLoweredFrom(new.props, old.props)

\* The pass has returned on a function whose attribute nests a pointer type
\* in a parametrized attribute inside an array, and on a test.op kept with a
\* converted result type.
C13_Witness ==
    /\ status = "done"
    /\ input[1].name = "func.func"
    /\ Len(input[1].attrs) = 1 /\ input[1].attrs[1].k = "builtin.array"
    /\ block[1].attrs[1].data[1].params[1] = new_pointer_type
    /\ \E i \in 1..Len(block) :
          block[i].name = "test.op" /\ block[i].rtypes = <<new_state_type>>

-----------------------------------------------------------------------------
(* xdsl-tv.                                                                *)

\* C14: the module xdsl-tv hands to the SMT-LIB printer holds the two
\* define_fun, one call of each, the eq of the two calls and the assert of
\* that eq, and ends with a check_sat op.
C14_PrintedModuleEndsWithCheckSat ==
    status = "printed" =>
        /\ Len(block) >= 7
        /\ block[1].name = "smt.define_fun" /\ block[2].name = "smt.define_fun"
        /\ block[3].name = "smt.call" /\ block[3].operands = <<Result(block[1], 1)>>
        /\ block[4].name = "smt.call" /\ block[4].operands = <<Result(block[2], 1)>>
        /\ block[5].name = "smt.eq"
        /\ block[5].operands = <<Result(block[3], 1), Result(block[4], 1)>>
        /\ block[6].name = "smt.assert" /\ block[6].operands = <<Result(block[5], 1)>>
        /\ block[Len(block)].name = "smt.check_sat"

-----------------------------------------------------------------------------
(* pdl-to-smt: rejected replaces, erased handles, fixpoint.                *)

\* The visited op is a pdl.replace whose replaced operation, or (when it
\* replaces by an operation) whose replacing operation, is bound in the side
\* table to an op that does not have exactly one result.
ReplaceOfUnsupportedOp ==
    /\ Visiting /\ Cur.name = "pdl.replace"
    /\ Cur.operands[1] \in DOMAIN pdl_op_to_op
    /\ \/ Len(pdl_op_to_op[Cur.operands[1]].rtypes) # 1
       \/ /\ Len(repl_values(Cur)) = 0 /\ Len(repl_operation(Cur)) = 1
          /\ repl_operation(Cur)[1] \in DOMAIN pdl_op_to_op
          /\ Len(pdl_op_to_op[repl_operation(Cur)[1]].rtypes) # 1

\* C15: a pdl.replace whose replaced or replacing operation is bound to an op
\* without exactly one result makes the rewrite raise; no distinct and no
\* assert (no op at all) is emitted for it, and the pass takes no step after
\* the error.
C15_ReplaceOfMultiResultOpAborts ==
    [][/\ ReplaceOfUnsupportedOp =>
              /\ status' = "Exception"
              /\ block' = block /\ nextId' = nextId
              /\ CountName(FlatOps(block'), "smt.distinct")
                     = CountName(FlatOps(block), "smt.distinct")
       /\ status = "Exception" => FALSE
    ]_vars

\* The pass has aborted on the replace of an operation bound to an op with
\* two results.
C15_Witness ==
    /\ status = "Exception"
    /\ idx <= Len(block) /\ Cur.name = "pdl.replace"
    /\ Cur.operands[1] \in DOMAIN pdl_op_to_op
    /\ Len(pdl_op_to_op[Cur.operands[1]].rtypes) = 2

\* C16: in the module a successful pdl-to-smt returns, no remaining op has an
\* operand that refers to a result of a pdl.type, pdl.attribute or
\* pdl.operation op erased with safe_erase=False.
C16_NoUseOfErasedValueRemains ==
    (status = "done" /\ erased # {}) =>
        \A i \in 1..Len(FlatOps(block)) :
            \A v \in SeqRange(FlatOps(block)[i].operands) : ~isErased(v)

\* No pattern of pdl-to-smt matches the i-th op of the module.
NoPDLPatternMatches(ops, i) ==
    /\ ops[i].name \notin PdlNames \cup TransferNames
    /\ GreedyApply(arith_to_smt_patterns \o comb_to_smt_patterns, 1, ops, i,
                   nextId).pattern = 0

\* C17: each of comb-to-smt, pdl-to-smt and lower-effects-with-memory is
\* idempotent at fixpoint: applied again to the module a successful
\* application returned, the pass performs no rewrite and returns the module
\* unchanged (no pattern matches any op of the output).
C17_PassesAreIdempotentAtFixpoint ==
    status = "done" =>
        CASE PassOf(input) = "comb-to-smt" ->
                LET again == CombToSMT_apply(block, nextId)
                IN again.err = "" /\ again.ops = block
          [] PassOf(input) = "lower-effects-with-memory" ->
                LET again == LowerEffectWithMemoryPass_apply(block, nextId)
                IN again.err = "" /\ again.ops = block
          [] PassOf(input) = "pdl-to-smt" ->
                /\ FlatOps(block) = block
                /\ \A i \in 1..Len(block) : NoPDLPatternMatches(block, i)

\* lower-effects-with-memory has returned a module in which it replaced an
\* alloc.
C17_Witness ==
    /\ status = "done"
    /\ PassOf(input) = "lower-effects-with-memory"
    /\ CountName(input, "mem_effect.alloc") = 1
    /\ CountName(block, "mem_effect.alloc") = 0
    /\ CountName(block, "memory.get_fresh_block_id") = 1

-----------------------------------------------------------------------------
(* comb-to-smt: concat.                                                    *)

ConcatStep(n) == Visiting /\ Cur.name = "comb.concat" /\ Len(Cur.operands) = n

RECURSIVE SumWidths(_)
SumWidths(values) ==
    IF Len(values) = 0 THEN 0 ELSE values[1].type.w + SumWidths(Tail(values))

\* C18: comb.concat with n >= 1 operands is replaced by n - 1 smt.bv concat ops
\* combined as a left fold, concat(...concat(concat(x1, x2), x3)..., xn); with
\* one operand it is replaced by the operand itself; the width of the
\* replacing value is the sum of the operand widths.
C18_ConcatLeftFold ==
    [][/\ ConcatStep(1) => ReplacedBy(0, Cur.operands[1])
       /\ \A n \in 2..MaxArity :
             ConcatStep(n) =>
                 /\ status' = "running"
                 /\ Len(block') = Len(block) + n - 2
                 /\ LET v == Result(block'[idx + n - 2], 1)
                    IN /\ IsLeftFold(block', v, "smt.bv.concat", Cur.operands, n)
                       /\ ReplacedBy(n - 1, v)
                       /\ v.type.k = "smt.bv.bv"
                       /\ v.type.w = SumWidths(Cur.operands)
    ]_vars

\* v is the constant true.
IsTrue(v) == Made(v, "smt.constant_bool") /\ Def(block', v).val = 1

\* v is the 64-bit bit-vector constant 0.
IsZero64(v) ==
    /\ Made(v, "smt.bv.constant")
    /\ Def(block', v).val = 0
    /\ Def(block', v).ty = [k |-> "smt.bv.bv", w |-> 64]
    /\ v.type = [k |-> "smt.bv.bv", w |-> 64]

\* C19: lowering alloc(state, size) returns (state', pointer) where pointer is
\* pair(id, 0 : 64-bit) for the id get_fresh_block_id draws from the input
\* memory first(state), and state' is pair(memory', ub) with ub = second(state)
\* unchanged and memory' the memory returned by get_fresh_block_id in which
\* the block at id is replaced by that block marked live and given the size.
C19_AllocReturnsFreshLiveSizedBlock ==
    [][LoweringStep({"mem_effect.alloc"}) =>
        LET state == NewState
            pointer == Result(block'[idx + Cardinality(Created) - 2], 1)
            id == Arg(pointer, 1)
            memory == Arg(id, 1)
            new_memory == Result(Def(block', id), 2)
            memory1 == Arg(state, 1)
            ub == Arg(state, 2)
            sized == Arg(memory1, 1)
            live == Arg(sized, 1)
            blk == Arg(live, 1)
        IN /\ Made(state, "smt.utils.pair") /\ state.type = new_state_type
           /\ Made(pointer, "smt.utils.pair") /\ pointer.type = new_pointer_type
           /\ UsesNow(1, state) /\ UsesNow(2, pointer)
           /\ Made(id, "memory.get_fresh_block_id") /\ id.idx = 1
           /\ IsZero64(Arg(pointer, 2))
           /\ Made(memory, "smt.utils.first") /\ Arg(memory, 1) = op_state(Cur)
           /\ Made(ub, "smt.utils.second") /\ Arg(ub, 1) = op_state(Cur)
           /\ Made(memory1, "memory.set_block")
           /\ Arg(memory1, 2) = new_memory /\ Arg(memory1, 3) = id
           /\ Made(sized, "memory.set_block_size") /\ Arg(sized, 2) = op_size(Cur)
           /\ Made(live, "memory.set_block_live_marker") /\ IsTrue(Arg(live, 2))
           /\ Made(blk, "memory.get_block")
           /\ Arg(blk, 1) = new_memory /\ Arg(blk, 2) = id
    ]_vars

\* An alloc followed by a read has been lowered: the read went through the
\* pointer and the state the alloc returned.
C19_Witness ==
    /\ status = "done"
    /\ Len(input) = 4
    /\ input[2].name = "mem_effect.alloc" /\ input[3].name = "mem_effect.read"
    /\ CountName(block, "mem_effect.alloc") = 0
    /\ CountName(block, "memory.set_block_live_marker") = 1
    /\ CountName(block, "memory.set_block_size") = 1

-----------------------------------------------------------------------------
(* check_bounds, bit by bit.                                               *)

\* The 64 bits of four 16-bit limbs, least significant first.
Bits(limbs) == [i \in 1..64 |-> (limbs[((i - 1) \div 16) + 1] \div TwoToThe((i - 1) % 16)) % 2]

\* Ripple-carry sum of two 64-bit vectors; the carry out of bit 64 is dropped.
RECURSIVE RippleSum(_, _, _, _)
RippleSum(a, b, i, carry) ==
    IF i > 64 THEN <<>>
    ELSE <<(a[i] + b[i] + carry) % 2>> \o RippleSum(a, b, i + 1, (a[i] + b[i] + carry) \div 2)

\* a <= b as unsigned numbers, from bit i down.
RECURSIVE UnsignedLeq(_, _, _)
UnsignedLeq(a, b, i) ==
    IF i = 0 THEN TRUE
    ELSE IF a[i] # b[i] THEN a[i] < b[i]
    ELSE UnsignedLeq(a, b, i - 1)

-----------------------------------------------------------------------------
(* Properties of the binding of pdl.operation ops.                         *)

OperationStep == Matches("pdl.operation") /\ status' = "running"

ResultStep == Matches("pdl.result") /\ status' = "running"

\* The types the erased pdl.type ops of the visited pdl.operation stand for.
MaterialisedTypes ==
    [j \in 1..Len(type_values(Cur)) |-> Owner(type_values(Cur)[j]).ty]

\* The sub-module of the visited pdl.operation: the named op on the operands
\* of the pdl.operation, with the declared result types, after arith-to-smt
\* and then comb-to-smt.
MaterialisedModule ==
    LET synthesized_op ==
            OperationRewrite_create(Cur, MaterialisedTypes,
                [j \in 1..Len(attribute_values(Cur)) |->
                    _get_attr_of_erased_attr_value(attribute_values(Cur)[j])],
                nextId)
        arith == ArithToSMT_apply(<<synthesized_op>>, nextId + 1)
    IN CombToSMT_apply(arith.ops, arith.nextId)

\* The operands of the ops after position i of a block, nested ones included.
OperandsAfter(ops, i) == OperandsOf(SubSeq(ops, i + 1, Len(ops)))

\* C21: rewriting a pdl.operation O binds O's result in the side table to the
\* last op of the sub-module obtained by lowering the materialised operation
\* through arith-to-smt then comb-to-smt and puts the lowered ops at O's
\* position; rewriting a pdl.result of index i of O rewires every use of it
\* to result i of the bound op; and a later pdl.replace of O compares, in its
\* distinct, the first result of that bound op, which stands in the block.
C21_OperationBoundToLastLoweredOp ==
    [][/\ OperationStep =>
            LET m == MaterialisedModule
            IN /\ m.err = "" /\ Len(m.ops) >= 1
               /\ DOMAIN pdl_op_to_op' = DOMAIN pdl_op_to_op \cup {Result(Cur, 1)}
               /\ pdl_op_to_op'[Result(Cur, 1)] = m.ops[Len(m.ops)]
               /\ \A v \in DOMAIN pdl_op_to_op \ {Result(Cur, 1)} :
                     pdl_op_to_op'[v] = pdl_op_to_op[v]
               /\ block' = SubSeq(block, 1, idx - 1) \o m.ops
                              \o SubSeq(block, idx + 1, Len(block))
       /\ ResultStep =>
            LET bound == pdl_op_to_op[Cur.operands[1]]
                before == OperandsAfter(block, idx)
                after == OperandsAfter(block', idx - 1)
            IN /\ Cur.index + 1 \in 1..Len(bound.rtypes)
               /\ SubSeq(block', 1, idx - 1) = SubSeq(block, 1, idx - 1)
               /\ Len(block') = Len(block) - 1
               /\ Len(after) = Len(before)
               /\ \A n \in 1..Len(before) :
                     /\ Len(after[n]) = Len(before[n])
                     /\ \A j \in 1..Len(before[n]) :
                           after[n][j] =
                              IF before[n][j] = Result(Cur, 1)
                              THEN Result(bound, Cur.index + 1)
                              ELSE before[n][j]
       /\ ReplaceStep =>
            LET bound == pdl_op_to_op[Cur.operands[1]]
            IN /\ HasOp(block, bound.id) /\ Pos(block, bound.id) < idx
               /\ OpById(block, bound.id) = bound
               /\ \E i \in CreatedNamed("smt.distinct") :
                     block'[i].operands[2] = Result(bound, 1)
    ]_vars

\* A pdl.result of a bound operation was rewritten and the replace that
\* follows has compared a value with the result of a bound op of the block.
C21_Witness ==
    /\ CountName(FlatOps(input), "pdl.result") >= 1
    /\ CountName(FlatOps(block), "pdl.result") = 0
    /\ \E v \in DOMAIN pdl_op_to_op :
          /\ HasOp(block, pdl_op_to_op[v].id)
          /\ \E i \in 1..Len(block) :
                /\ block[i].name = "smt.distinct"
                /\ block[i].operands[2] = Result(pdl_op_to_op[v], 1)
                /\ HasOp(block, block[i].operands[1].op)
                /\ \E w \in DOMAIN pdl_op_to_op :
                      /\ w # v
                      /\ block[i].operands[1] = Result(pdl_op_to_op[w], 1)

-----------------------------------------------------------------------------
(* Properties of the ub flag.  The flag of a state is read off the ops of  *)
(* the block: second(pair(m, u)) is u, or(a, b) is a or b, and every other *)
(* boolean (the flag of a state that no pair builds, a bounds check) is an *)
(* atom, true exactly when it belongs to the set T.                        *)

IsPair(ops, v) == HasOp(ops, v.op) /\ v.idx >= 1 /\ Def(ops, v).name = "smt.utils.pair"

RECURSIVE BoolOf(_, _, _)
BoolOf(ops, v, T) ==
    IF ~HasOp(ops, v.op) \/ v.idx < 1 THEN v \in T
    ELSE LET o == Def(ops, v)
         IN CASE o.name = "smt.constant_bool" -> o.val = 1
              [] o.name = "smt.or" ->
                    BoolOf(ops, o.operands[1], T) \/ BoolOf(ops, o.operands[2], T)
              [] o.name = "smt.utils.second" ->
                    IF IsPair(ops, o.operands[1])
                    THEN BoolOf(ops, Def(ops, o.operands[1]).operands[2], T)
                    ELSE o.operands[1] \in T
              [] OTHER -> v \in T

\* The ub flag of the state v.
UbOf(ops, v, T) ==
    IF IsPair(ops, v) THEN BoolOf(ops, Def(ops, v).operands[2], T) ELSE v \in T

\* The atoms the value of a boolean depends on.
RECURSIVE BoolAtoms(_, _)
BoolAtoms(ops, v) ==
    IF ~HasOp(ops, v.op) \/ v.idx < 1 THEN {v}
    ELSE LET o == Def(ops, v)
         IN CASE o.name = "smt.constant_bool" -> {}
              [] o.name = "smt.or" ->
                    BoolAtoms(ops, o.operands[1]) \cup BoolAtoms(ops, o.operands[2])
              [] o.name = "smt.utils.second" ->
                    IF IsPair(ops, o.operands[1])
                    THEN BoolAtoms(ops, Def(ops, o.operands[1]).operands[2])
                    ELSE {o.operands[1]}
              [] OTHER -> {v}

UbAtoms(ops, v) ==
    IF IsPair(ops, v) THEN BoolAtoms(ops, Def(ops, v).operands[2]) ELSE {v}

\* The valuations of the atoms of the input state and of the returned state
\* of the lowering.
Valuations == SUBSET (UbAtoms(block', op_state(Cur)) \cup UbAtoms(block', NewState))

StateNames == {"ub_effect.trigger", "mem_effect.alloc", "mem_effect.read",
               "mem_effect.write"}

\* C22: the ub flag is monotone along the state chain: the state that a
\* lowered ub.trigger, alloc, read or write returns has a true ub flag
\* whenever its input state has one; a trigger returns
\* pair(first(state), true), and ub.to_bool(state) is replaced by
\* second(state).
C22_UbFlagIsMonotone ==
    [][/\ LoweringStep(StateNames) =>
              /\ Made(NewState, "smt.utils.pair") /\ UsesNow(1, NewState)
              /\ \A T \in Valuations :
                    UbOf(block', op_state(Cur), T) => UbOf(block', NewState, T)
       /\ LoweringStep({"ub_effect.trigger"}) =>
              /\ Made(Arg(NewState, 1), "smt.utils.first")
              /\ Arg(Arg(NewState, 1), 1) = op_state(Cur)
              /\ IsTrue(Arg(NewState, 2))
              /\ \A T \in Valuations : UbOf(block', NewState, T)
       /\ LoweringStep({"ub_effect.to_bool"}) =>
              \E i \in CreatedNamed("smt.utils.second") :
                  /\ block'[i].operands[1] = op_state(Cur)
                  /\ UsesNow(1, Result(block'[i], 1))
    ]_vars

\* A trigger and the read that takes its state have both been lowered: the
\* flag the read returns is an or over the second of the pair the trigger
\* built.
C22_Witness ==
    /\ status = "done"
    /\ Len(input) = 4
    /\ input[2].name = "ub_effect.trigger" /\ input[3].name = "mem_effect.read"
    /\ \E i \in 1..Len(block) :
          /\ block[i].name = "smt.or"
          /\ Def(block, block[i].operands[1]).name = "smt.utils.second"
          /\ IsPair(block, Def(block, block[i].operands[1]).operands[1])
          /\ UbOf(block, block[Len(block)].operands[1], {})

\* C23: a lowered read or write raises ub only for an out-of-bounds access:
\* whenever the value check_bounds returns (offset_in_bounds) is true, the ub
\* flag of the returned state equals the ub flag of the input state.
C23_InBoundsAccessKeepsUbFlag ==
    [][LoweringStep({"mem_effect.read", "mem_effect.write"}) =>
          LET offset_in_bounds == Arg(Arg(NewState, 2), 2)
          IN /\ Made(offset_in_bounds, "smt.bv.ule")
             /\ \A T \in Valuations :
                   BoolOf(block', offset_in_bounds, T) =>
                       (UbOf(block', NewState, T) <=> UbOf(block', op_state(Cur), T))
    ]_vars

-----------------------------------------------------------------------------
(* Properties of the termination of lower-effects-with-memory.             *)

EffectOpNames == {"ub_effect.trigger", "ub_effect.to_bool", "mem_effect.alloc",
                  "mem_effect.offset_ptr", "mem_effect.read", "mem_effect.write"}

\* LowerGenericOp performs a rewrite on the i-th op.
GenericActs(ops, i) == LowerGenericOp(lower_effects_patterns[3], ops, i, nextId).act

\* Some pattern of the pass performs a rewrite on the i-th op.
SomeEffectPatternActs(ops, i) == GreedyApplyEffects(1, ops, i, nextId).pattern # 0

\* C24: lower-effects-with-memory terminates and lowers every effect op:
\* the walk reaches its end; LowerGenericOp, which precedes LowerAlloc,
\* LowerPointerOffset, LowerRead and LowerWrite, rewrites an op only while
\* the op holds a State or Pointer type and then leaves the op in place with
\* none, so that it never rewrites it again; no pattern performs a rewrite
\* on an op that a pattern inserted; and in the module the pass returns no
\* ub.trigger, ub.to_bool, alloc, offset_ptr, read or write remains.
C24_PassTerminatesAndLowersEveryEffectOp ==
    /\ <>(status = "done")
    /\ [](status = "done" =>
             \A i \in 1..Len(block) : block[i].name \notin EffectOpNames)
    /\ [][/\ (Visiting /\ GenericActs(block, idx)
                       /\ Cur.name \notin {"ub_effect.trigger", "ub_effect.to_bool"}) =>
                 /\ Len(block') = Len(block) /\ nextId' = nextId
                 /\ block'[idx].id = Cur.id /\ block'[idx].name = Cur.name
                 /\ ~GenericActs(block', idx)
          /\ \A i \in 1..Len(block) :
                (~GenericActs(block, i) /\ HasOp(block', block[i].id)) =>
                    ~GenericActs(block', Pos(block', block[i].id))
          /\ \A i \in Created : ~SomeEffectPatternActs(block', i)
         ]_vars

\* The pass has returned a module in which it first converted the types of an
\* alloc and of the function and then lowered the alloc.
C24_Witness ==
    /\ status = "done"
    /\ input[2].name = "mem_effect.alloc"
    /\ block[1].id = input[1].id /\ block[1].props # input[1].props
    /\ \A i \in 1..Len(block) : block[i].name \notin EffectOpNames
    /\ CountName(block, "memory.get_fresh_block_id") >= 1

-----------------------------------------------------------------------------
(* Properties of pdl.operation ops that name a variadic comb op.           *)

VariadicOperation(n) ==
    /\ Matches("pdl.operation")
    /\ Cur.opName \in VariadicNames
    /\ Len(operand_values(Cur)) = n

\* C25: rewriting a pdl.operation that names a comb variadic op (add, mul,
\* and, or, xor) with any number n >= 0 of operands succeeds: the lowered
\* sub-module is not empty, the assertion on its last op holds, and the side
\* table binds the operation to an op of the block with one result.
C25_VariadicOperationBindsLoweredOp ==
    [][(\E n \in 0..2 : VariadicOperation(n)) =>
          /\ status' = "running"
          /\ Result(Cur, 1) \in DOMAIN pdl_op_to_op'
          /\ HasOp(block', pdl_op_to_op'[Result(Cur, 1)].id)
          /\ Len(pdl_op_to_op'[Result(Cur, 1)].rtypes) = 1
    ]_vars
====
